---- MODULE Spec2Model ----
(***************************************************************************)
(* Verification model of the agentic-workshop repository.                  *)
(*                                                                         *)
(* Part 1: the agent event trace interpreter, invoke_bedrock_agent of      *)
(* agentic_chatbot/agent_tools.py, with the chat turn of chatbot_st.py     *)
(* that consumes its return value.                                         *)
(* Part 2: retry_with_backoff of gen_aws_diag_docker/lambda_handler.py.    *)
(* Part 3: the browser session of chatbot_st.py: the script runs once per  *)
(* interaction, and a chat turn calls invoke_bedrock_agent.                *)
(*                                                                         *)
(* Python values are modelled directly: a dict is a function from key      *)
(* strings to values (k in d is k \in DOMAIN d, the empty dict is <<>>),   *)
(* a list is a sequence, bytes are sequences of 0..255, a str that is the  *)
(* result of decoding, or is shown next to one (a chat message text), is   *)
(* the sequence of its code points, and every other str is a TLA+ string.  *)
(*                                                                         *)
(* Environment assumptions: the Streamlit calls (st.markdown, st.code,     *)
(* st.error, expander) and the file system (plt.imsave, open, write) do    *)
(* not fail.  Failures that depend on the event payload are modelled: a    *)
(* missing key, bytes that are not UTF-8, image data that is not a PNG.    *)
(***************************************************************************)
EXTENDS Integers, Sequences, FiniteSets, TLC

VARIABLES
    pc,              \* control position of one invoke_bedrock_agent call and its caller
    delivered,       \* the events the stream has delivered so far, in order
    model_response,  \* the Result being accumulated
    ret,             \* what invoke_bedrock_agent returned
    writes,          \* paths written to disk, in order
    warnings,        \* guardrail warnings shown with st.error, in order
    errlog,          \* indices (0-based, as enumerate gives them) of events whose handler raised
    invocations,     \* number of bedrock_agent_runtime.invoke_agent calls
    transport,       \* "ok", or "failed" once the remote call or the stream has raised
    attempt,         \* retry_with_backoff: loop variable
    max_retries,     \* retry_with_backoff: keyword argument
    initial_delay,   \* retry_with_backoff: keyword argument
    calls,           \* retry_with_backoff: outcome of each call of func, in order
    sleeps,          \* retry_with_backoff: argument of each time.sleep, in order
    rpc,             \* retry_with_backoff: control position
    rret,            \* retry_with_backoff: return value
    initialized,     \* chatbot_st.py: "messages" in st.session_state
    messages,        \* chatbot_st.py: st.session_state.messages
    session_id,      \* chatbot_st.py: st.session_state.session_id
    shown,           \* chatbot_st.py: the texts st.markdown rendered in the last script run
    call_log,        \* chatbot_st.py: the invoke_bedrock_agent calls made so far, in order
    lambda_event,    \* diagram lambda_handler: the event it was invoked with
    lpc,             \* diagram lambda_handler: control position
    api_response,    \* diagram lambda_handler: what it returned
    put_objects,     \* upload_to_s3: the s3_client.put_object calls and what each did
    exit_stack,      \* cdk_agent_core.py: module global
    agent_instance,  \* cdk_agent_core.py: module global
    mcp_clients,     \* cdk_agent_core.py: module global
    core_trace,      \* cdk_agent_core.py: calls made on the MCP clients and the stack, in order
    replies,         \* cdk_agent_core.py: what the runtime got from each docs_diag_agent call
    ipc,             \* invoke_cdk_agent.py: control position of main
    invoke_args,     \* invoke_cdk_agent.py: session_id argument and the uuid4 to be drawn
    remote,          \* invoke_cdk_agent.py: what invoke_agent_runtime and its body will do
    invoke_result,   \* invoke_cdk_agent.py: what invoke_agent returned
    session_file,    \* invoke_cdk_agent.py: content of last_session_id.txt
    program,         \* tool-use pipeline: which of the two source files runs
    ppc,             \* tool-use pipeline: control position
    message_list,    \* tool-use pipeline: message_list
    converse_requests, \* tool-use pipeline: the messages argument of each bedrock.converse call
    tool_executions  \* tool-use pipeline: the tool runs made, in order

agentVars == <<pc, delivered, model_response, ret, writes, warnings, errlog, invocations,
              transport>>
retryVars == <<attempt, max_retries, initial_delay, calls, sleeps, rpc, rret>>
chatVars == <<initialized, messages, session_id, shown, call_log>>
lambdaVars == <<lambda_event, lpc, api_response, put_objects>>
coreVars == <<exit_stack, agent_instance, mcp_clients, core_trace, replies>>
invokeVars == <<ipc, invoke_args, remote, invoke_result, session_file>>
pipelineVars == <<program, ppc, message_list, converse_requests, tool_executions>>
\* the state of the programs that are no part of the chatbot
otherVars == <<lambdaVars, coreVars, invokeVars, pipelineVars>>
vars == <<agentVars, retryVars, chatVars, otherVars>>

(***************************************************************************)
(* Bounds of the model.                                                    *)
(***************************************************************************)
MaxEvents == 3       \* longest event stream explored
MaxRetriesArg == 3   \* largest max_retries argument explored
MaxTurns == 2        \* most chat turns of one browser session explored
MaxRequests == 3     \* most requests to docs_diag_agent explored
MaxLines == 2        \* most lines of an event-stream response explored
MaxBlocks == 2       \* most content blocks of a model message explored

(***************************************************************************)
(* Python helpers.                                                         *)
(***************************************************************************)
Empty == <<>>                       \* {} and []
HasKey(d, k) == k \in DOMAIN d      \* k in d
None == [none |-> TRUE]             \* the value None, where a dict may stand too
NotReturned == [pending |-> TRUE]   \* no return value yet
IsPrefix(s, t) == Len(s) <= Len(t) /\ SubSeq(t, 1, Len(s)) = s   \* t.startswith(s), t[:len(s)] == s

IMAGE_FOLDER == "images"

(***************************************************************************)
(* bytes.decode("utf-8"): strict decoding of well-formed UTF-8 (Unicode    *)
(* table 3-7).  The result is [ok, cps]: ok = FALSE is UnicodeDecodeError, *)
(* cps the code points decoded.                                            *)
(***************************************************************************)
IsCont(b) == b >= 128 /\ b <= 191

RECURSIVE Utf8Decode(_)
Utf8Decode(b) ==
    IF b = <<>> THEN [ok |-> TRUE, cps |-> <<>>]
    ELSE LET b1 == b[1]
             n  == Len(b)
             Rest(k, cp) ==
                 LET r == Utf8Decode(SubSeq(b, k + 1, n))
                 IN  IF r.ok THEN [ok |-> TRUE, cps |-> <<cp>> \o r.cps]
                     ELSE [ok |-> FALSE, cps |-> <<>>]
             Bad == [ok |-> FALSE, cps |-> <<>>]
         IN  IF b1 <= 127 THEN Rest(1, b1)
             ELSE IF b1 >= 194 /\ b1 <= 223
             THEN IF n >= 2 /\ IsCont(b[2])
                  THEN Rest(2, (b1 - 192) * 64 + (b[2] - 128))
                  ELSE Bad
             ELSE IF b1 >= 224 /\ b1 <= 239
             THEN IF /\ n >= 3
                     /\ IsCont(b[2]) /\ IsCont(b[3])
                     /\ (b1 = 224 => b[2] >= 160)
                     /\ (b1 = 237 => b[2] <= 159)
                  THEN Rest(3, (b1 - 224) * 4096 + (b[2] - 128) * 64 + (b[3] - 128))
                  ELSE Bad
             ELSE IF b1 >= 240 /\ b1 <= 244
             THEN IF /\ n >= 4
                     /\ IsCont(b[2]) /\ IsCont(b[3]) /\ IsCont(b[4])
                     /\ (b1 = 240 => b[2] >= 144)
                     /\ (b1 = 244 => b[2] <= 143)
                  THEN Rest(4, (b1 - 240) * 262144 + (b[2] - 128) * 4096
                                 + (b[3] - 128) * 64 + (b[4] - 128))
                  ELSE Bad
             ELSE Bad

(***************************************************************************)
(* plt.imread(io.BytesIO(bytes_data)): raises unless the data is a PNG.    *)
(* Only the 8-byte PNG signature is modelled.                              *)
(***************************************************************************)
PngSignature == <<137, 80, 78, 71, 13, 10, 26, 10>>
ImreadOk(bytes_data) ==
    Len(bytes_data) >= 8 /\ SubSeq(bytes_data, 1, 8) = PngSignature

(***************************************************************************)
(* The body of the event loop of invoke_bedrock_agent.  A handler state h  *)
(* is [mr, writes, warnings, st]: the Result, the disk writes and the      *)
(* warnings so far, and st = "run" (executing), "exc" (an exception was    *)
(* raised inside the try block) or "ret" (the return statement ran).       *)
(* Every step leaves h alone unless st = "run": statements after a raise   *)
(* or a return are not executed, and what was done before it stays done.   *)
(***************************************************************************)
Raise(h) == [h EXCEPT !.st = "exc"]

\* model_response["traces"].append({"trace_type": type, "text": text})
AppendTrace(h, type, text) ==
    [h EXCEPT !.mr.traces = Append(@, [trace_type |-> type, text |-> text])]

\* One 'if key in d: v = d[key][sub]; append trace_object' block.
FieldStep(h, d, key, sub, type) ==
    IF h.st # "run" \/ ~HasKey(d, key) THEN h
    ELSE IF ~HasKey(d[key], sub) THEN Raise(h)
    ELSE AppendTrace(h, type, d[key][sub])

\* RationaleStep with trace_event["rationale"].get("text", "") in place of ["text"]
RationaleStepLenient(h, trace_event) ==
    IF h.st # "run" \/ ~HasKey(trace_event, "rationale") THEN h
    ELSE IF ~HasKey(trace_event.rationale, "text") THEN AppendTrace(h, "rationale", "")
    ELSE AppendTrace(h, "rationale", trace_event.rationale.text)

\* if "rationale" in trace_event: ...
RationaleStep(h, trace_event) ==
    FieldStep(h, trace_event, "rationale", "text", "rationale")

\* InvocationInputStep with elif in place of the second and third if
InvocationInputStepElif(h, trace_event) ==
    IF h.st # "run" \/ ~HasKey(trace_event, "invocationInput") THEN h
    ELSE LET ii == trace_event.invocationInput
         IN  IF HasKey(ii, "codeInterpreterInvocationInput")
             THEN FieldStep(h, ii, "codeInterpreterInvocationInput", "code",
                            "codeInterpreter")
             ELSE IF HasKey(ii, "knowledgeBaseLookupInput")
             THEN FieldStep(h, ii, "knowledgeBaseLookupInput", "text",
                            "knowledgeBaseLookup")
             ELSE FieldStep(h, ii, "actionGroupInvocationInput", "function",
                            "actionGroupInvocation")

\* InvocationInputStep with the function name recorded as a knowledge-base lookup
InvocationInputStepFunctionAsLookup(h, trace_event) ==
    IF h.st # "run" \/ ~HasKey(trace_event, "invocationInput") THEN h
    ELSE LET ii == trace_event.invocationInput
             h1 == FieldStep(h, ii, "codeInterpreterInvocationInput", "code",
                             "codeInterpreter")
             h2 == FieldStep(h1, ii, "knowledgeBaseLookupInput", "text",
                             "knowledgeBaseLookup")
         IN  FieldStep(h2, ii, "actionGroupInvocationInput", "function",
                       "knowledgeBaseLookup")

\* if "invocationInput" in trace_event: three independent if blocks
InvocationInputStep(h, trace_event) ==
    IF h.st # "run" \/ ~HasKey(trace_event, "invocationInput") THEN h
    ELSE LET ii == trace_event.invocationInput
             h1 == FieldStep(h, ii, "codeInterpreterInvocationInput", "code",
                             "codeInterpreter")
             h2 == FieldStep(h1, ii, "knowledgeBaseLookupInput", "text",
                             "knowledgeBaseLookup")
         IN  FieldStep(h2, ii, "actionGroupInvocationInput", "function",
                       "actionGroupInvocation")

\* CodeInterpreterOutputStep with elif in place of the executionError if
CodeInterpreterOutputStepElif(h, obs) ==
    IF h.st # "run" \/ ~HasKey(obs, "codeInterpreterInvocationOutput") THEN h
    ELSE LET out == obs.codeInterpreterInvocationOutput
         IN  IF HasKey(out, "executionOutput")
             THEN AppendTrace(h, "observation", out.executionOutput)
             ELSE IF HasKey(out, "executionError")
             THEN AppendTrace(h, "observation", out.executionError)
             ELSE h

\* if "codeInterpreterInvocationOutput" in observation: executionOutput, executionError
\* (both accesses are guarded by their own 'in' test: neither can raise)
CodeInterpreterOutputStep(h, obs) ==
    IF h.st # "run" \/ ~HasKey(obs, "codeInterpreterInvocationOutput") THEN h
    ELSE LET out == obs.codeInterpreterInvocationOutput
             h1 == IF HasKey(out, "executionOutput")
                   THEN AppendTrace(h, "observation", out.executionOutput) ELSE h
         IN  IF HasKey(out, "executionError")
             THEN AppendTrace(h1, "observation", out.executionError) ELSE h1

\* the two st.markdown calls per reference inside the knowledgeBaseLookupOutput expander
ReferenceShown(reference) ==
    /\ HasKey(reference, "location")
    /\ HasKey(reference.location, "s3Location")
    /\ HasKey(reference.location.s3Location, "uri")
    /\ HasKey(reference, "content")
    /\ HasKey(reference.content, "text")

\* if "knowledgeBaseLookupOutput" in observation: append, then show every reference
KnowledgeBaseOutputStep(h, obs) ==
    LET h1 == FieldStep(h, obs, "knowledgeBaseLookupOutput", "retrievedReferences",
                        "knowledgeBaseLookupOutput")
    IN  IF h.st # "run" \/ ~HasKey(obs, "knowledgeBaseLookupOutput") \/ h1.st # "run"
        THEN h1
        ELSE LET references == obs.knowledgeBaseLookupOutput.retrievedReferences
             IN  IF \A i \in 1..Len(references) : ReferenceShown(references[i])
                 THEN h1 ELSE Raise(h1)

\* ObservationStep with the final response recorded as an observation
ObservationStepFinalAsObservation(h, trace_event) ==
    IF h.st # "run" \/ ~HasKey(trace_event, "observation") THEN h
    ELSE LET obs == trace_event.observation
             h1 == CodeInterpreterOutputStep(h, obs)
             h2 == KnowledgeBaseOutputStep(h1, obs)
             h3 == FieldStep(h2, obs, "actionGroupInvocationOutput", "text",
                             "observation")
         IN  FieldStep(h3, obs, "finalResponse", "text", "observation")

\* if "observation" in trace_event: ...
ObservationStep(h, trace_event) ==
    IF h.st # "run" \/ ~HasKey(trace_event, "observation") THEN h
    ELSE LET obs == trace_event.observation
             h1 == CodeInterpreterOutputStep(h, obs)
             h2 == KnowledgeBaseOutputStep(h1, obs)
             h3 == FieldStep(h2, obs, "actionGroupInvocationOutput", "text",
                             "observation")
         IN  FieldStep(h3, obs, "finalResponse", "text", "finalResponse")

\* OrchestrationStep with the observation block ahead of the other two
OrchestrationStepObservationFirst(h, trace_event) ==
    InvocationInputStep(RationaleStep(ObservationStep(h, trace_event), trace_event),
                        trace_event)

\* the orchestrationTrace branch
OrchestrationStep(h, trace_event) ==
    ObservationStep(InvocationInputStep(RationaleStep(h, trace_event), trace_event),
                    trace_event)

(***************************************************************************)
(* The guardrailTrace branch: one st.error per BLOCKED filter and topic.   *)
(* A list is walked front to back; a failing access stops the walk and     *)
(* keeps the warnings already shown.                                       *)
(***************************************************************************)
Warn(h, kind, what) == [h EXCEPT !.warnings = Append(@, [kind |-> kind, what |-> what])]

\* FiltersStep without the 'if filter["action"] == "BLOCKED"' test
RECURSIVE FiltersStepWarnAll(_, _)
FiltersStepWarnAll(h, filters) ==
    IF h.st # "run" \/ filters = <<>> THEN h
    ELSE LET filter == Head(filters)
         IN  IF ~HasKey(filter, "type") \/ ~HasKey(filter, "confidence")
             THEN Raise(h)
             ELSE FiltersStepWarnAll(Warn(h, "content", filter.type), Tail(filters))

RECURSIVE FiltersStep(_, _)
FiltersStep(h, filters) ==
    IF h.st # "run" \/ filters = <<>> THEN h
    ELSE LET filter == Head(filters)
         IN  IF ~HasKey(filter, "action") THEN Raise(h)
             ELSE IF filter.action # "BLOCKED" THEN FiltersStep(h, Tail(filters))
             ELSE IF ~HasKey(filter, "type") \/ ~HasKey(filter, "confidence")
             THEN Raise(h)
             ELSE FiltersStep(Warn(h, "content", filter.type), Tail(filters))

RECURSIVE TopicsStep(_, _)
TopicsStep(h, topics) ==
    IF h.st # "run" \/ topics = <<>> THEN h
    ELSE LET topic == Head(topics)
         IN  IF ~HasKey(topic, "action") THEN Raise(h)
             ELSE IF topic.action # "BLOCKED" THEN TopicsStep(h, Tail(topics))
             ELSE IF ~HasKey(topic, "name") THEN Raise(h)
             ELSE TopicsStep(Warn(h, "topic", topic.name), Tail(topics))

AssessmentStep(h, assessment) ==
    LET h1 == IF h.st # "run" \/ ~HasKey(assessment, "contentPolicy") THEN h
              ELSE IF ~HasKey(assessment.contentPolicy, "filters") THEN Raise(h)
              ELSE FiltersStep(h, assessment.contentPolicy.filters)
    IN  IF h1.st # "run" \/ ~HasKey(assessment, "topicPolicy") THEN h1
        ELSE IF ~HasKey(assessment.topicPolicy, "topics") THEN Raise(h1)
        ELSE TopicsStep(h1, assessment.topicPolicy.topics)

RECURSIVE AssessmentsStep(_, _)
AssessmentsStep(h, assessments) ==
    IF h.st # "run" \/ assessments = <<>> THEN h
    ELSE AssessmentsStep(AssessmentStep(h, Head(assessments)), Tail(assessments))

GuardrailStep(h, guardrail_trace) ==
    IF h.st # "run" \/ ~HasKey(guardrail_trace, "inputAssessments") THEN h
    ELSE AssessmentsStep(h, guardrail_trace.inputAssessments)

\* TraceStep with an else branch that records a trace of any other kind
TraceStepRecordsOther(h, event) ==
    IF h.st # "run" \/ ~HasKey(event, "trace") THEN h
    ELSE IF HasKey(event.trace, "trace") /\ HasKey(event.trace.trace, "orchestrationTrace")
    THEN OrchestrationStep(h, event.trace.trace.orchestrationTrace)
    ELSE IF ~HasKey(event.trace, "trace") THEN Raise(h)
    ELSE IF HasKey(event.trace.trace, "guardrailTrace")
    THEN GuardrailStep(h, event.trace.trace.guardrailTrace)
    ELSE AppendTrace(h, "other", "")

\* if "trace" in event: orchestrationTrace, elif guardrailTrace
TraceStep(h, event) ==
    IF h.st # "run" \/ ~HasKey(event, "trace") THEN h
    ELSE IF HasKey(event.trace, "trace") /\ HasKey(event.trace.trace, "orchestrationTrace")
    THEN OrchestrationStep(h, event.trace.trace.orchestrationTrace)
    ELSE IF ~HasKey(event.trace, "trace") THEN Raise(h)   \* event["trace"]["trace"]: KeyError
    ELSE IF HasKey(event.trace.trace, "guardrailTrace")
    THEN GuardrailStep(h, event.trace.trace.guardrailTrace)
    ELSE h

(***************************************************************************)
(* Text chunks: decode, add to text, return.                               *)
(***************************************************************************)
\* ChunkStep without the return statement
ChunkStepNoReturn(h, event) ==
    IF h.st # "run" \/ ~HasKey(event, "chunk") THEN h
    ELSE IF ~HasKey(event.chunk, "bytes") THEN h
    ELSE LET text == Utf8Decode(event.chunk.bytes)
         IN  IF ~text.ok THEN Raise(h)
             ELSE [h EXCEPT !.mr.text = @ \o text.cps]

ChunkStep(h, event) ==
    IF h.st # "run" \/ ~HasKey(event, "chunk") THEN h
    ELSE IF ~HasKey(event.chunk, "bytes") THEN h
    ELSE LET text == Utf8Decode(event.chunk.bytes)
         IN  IF ~text.ok THEN Raise(h)
             ELSE [h EXCEPT !.mr.text = @ \o text.cps, !.st = "ret"]

(***************************************************************************)
(* File outputs.                                                           *)
(***************************************************************************)
\* FileStep without the 'if img_name not in model_response["images"]' test
FileStepNoDedup(h, file) ==
    IF h.st # "run" THEN h
    ELSE IF ~HasKey(file, "name") \/ ~HasKey(file, "type") \/ ~HasKey(file, "bytes")
    THEN Raise(h)
    ELSE IF file.type = "image/png"
    THEN IF ~ImreadOk(file.bytes) THEN Raise(h)
         ELSE LET img_name == IMAGE_FOLDER \o "/" \o file.name
              IN  [h EXCEPT !.writes = Append(@, img_name),
                            !.mr.images = Append(@, img_name)]
    ELSE [h EXCEPT !.writes = Append(@, file.name),
                   !.mr.files = Append(@, file.name)]

\* FileStep with the 'not in' test applied to model_response["files"] as well
FileStepDedupFiles(h, file) ==
    IF h.st # "run" THEN h
    ELSE IF ~HasKey(file, "name") \/ ~HasKey(file, "type") \/ ~HasKey(file, "bytes")
    THEN Raise(h)
    ELSE IF file.type = "image/png"
    THEN IF ~ImreadOk(file.bytes) THEN Raise(h)
         ELSE LET img_name == IMAGE_FOLDER \o "/" \o file.name
                  saved == [h EXCEPT !.writes = Append(@, img_name)]
              IN  IF \E i \in 1..Len(h.mr.images) : h.mr.images[i] = img_name
                  THEN saved
                  ELSE [saved EXCEPT !.mr.images = Append(@, img_name)]
    ELSE LET saved == [h EXCEPT !.writes = Append(@, file.name)]
         IN  IF \E i \in 1..Len(h.mr.files) : h.mr.files[i] = file.name
             THEN saved
             ELSE [saved EXCEPT !.mr.files = Append(@, file.name)]

\* FileStep with plt.imsave moved inside the 'not in' test
FileStepSavesNewOnly(h, file) ==
    IF h.st # "run" THEN h
    ELSE IF ~HasKey(file, "name") \/ ~HasKey(file, "type") \/ ~HasKey(file, "bytes")
    THEN Raise(h)
    ELSE IF file.type = "image/png"
    THEN IF ~ImreadOk(file.bytes) THEN Raise(h)
         ELSE LET img_name == IMAGE_FOLDER \o "/" \o file.name
              IN  IF \E i \in 1..Len(h.mr.images) : h.mr.images[i] = img_name
                  THEN h
                  ELSE [h EXCEPT !.writes = Append(@, img_name),
                                 !.mr.images = Append(@, img_name)]
    ELSE [h EXCEPT !.writes = Append(@, file.name),
                   !.mr.files = Append(@, file.name)]

FileStep(h, file) ==
    IF h.st # "run" THEN h
    ELSE IF ~HasKey(file, "name") \/ ~HasKey(file, "type") \/ ~HasKey(file, "bytes")
    THEN Raise(h)
    ELSE IF file.type = "image/png"
    THEN IF ~ImreadOk(file.bytes) THEN Raise(h)
         ELSE LET img_name == IMAGE_FOLDER \o "/" \o file.name
                  saved == [h EXCEPT !.writes = Append(@, img_name)]
              IN  IF \E i \in 1..Len(h.mr.images) : h.mr.images[i] = img_name
                  THEN saved
                  ELSE [saved EXCEPT !.mr.images = Append(@, img_name)]
    ELSE [h EXCEPT !.writes = Append(@, file.name),
                   !.mr.files = Append(@, file.name)]

RECURSIVE FileListStep(_, _)
FileListStep(h, files) ==
    IF h.st # "run" \/ files = <<>> THEN h
    ELSE FileListStep(FileStep(h, Head(files)), Tail(files))

FilesStep(h, event) ==
    IF h.st # "run" \/ ~HasKey(event, "files") THEN h
    ELSE IF ~HasKey(event.files, "files") THEN Raise(h)
    ELSE FileListStep(h, event.files.files)

\* One iteration of the for loop: the try block on one event.
HandleEvent(h, event) == FilesStep(ChunkStep(TraceStep(h, event), event), event)

(***************************************************************************)
(* The events explored.  The stream's schema is owned by the remote agent  *)
(* service, so the handler is exercised with well-formed events of every   *)
(* kind, events with several sub-fields, events with a missing sub-key,    *)
(* and events of shapes the handler does not match.                        *)
(***************************************************************************)
Orch(trace_event) == [trace |-> [trace |-> [orchestrationTrace |-> trace_event]]]

BytesDone == <<100, 111, 110, 101>>     \* b"done"
TextDone == <<100, 111, 110, 101>>      \* "done"
BytesCafe == <<99, 97, 102, 195, 169>>  \* "café".encode("utf-8")
TextCafe == <<99, 97, 102, 233>>        \* "café"
PngData == PngSignature \o <<0>>
CsvData == <<97, 44, 98>>

EvRationale == Orch([rationale |-> [text |-> "think"]])
EvRationaleNoText == Orch([rationale |-> Empty])
EvCodeInput ==
    Orch([invocationInput |-> [codeInterpreterInvocationInput |-> [code |-> "print(1)"]]])
EvKbInput == Orch([invocationInput |-> [knowledgeBaseLookupInput |-> [text |-> "query"]]])
EvAgInput ==
    Orch([invocationInput |-> [actionGroupInvocationInput |-> [function |-> "get_weather"]]])
EvExecOutput ==
    Orch([observation |-> [codeInterpreterInvocationOutput |-> [executionOutput |-> "1"]]])
EvExecError ==
    Orch([observation |-> [codeInterpreterInvocationOutput |-> [executionError |-> "boom"]]])
GoodReference == [location |-> [s3Location |-> [uri |-> "s3://kb/doc"]],
                  content |-> [text |-> "passage"]]
BadReference == [location |-> [s3Location |-> [uri |-> "s3://kb/doc"]]]
EvKbOutput ==
    Orch([observation |-> [knowledgeBaseLookupOutput |->
                               [retrievedReferences |-> <<GoodReference>>]]])
EvKbOutputBadRef ==
    Orch([observation |-> [knowledgeBaseLookupOutput |->
                               [retrievedReferences |-> <<GoodReference, BadReference>>]]])
EvAgOutput == Orch([observation |-> [actionGroupInvocationOutput |-> [text |-> "sunny"]]])
EvFinal == Orch([observation |-> [finalResponse |-> [text |-> "bye"]]])
\* several matching sub-fields in one event
EvMulti ==
    Orch([rationale |-> [text |-> "plan"],
          invocationInput |-> [codeInterpreterInvocationInput |-> [code |-> "print(2)"],
                               actionGroupInvocationInput |-> [function |-> "get_time"]],
          observation |-> [codeInterpreterInvocationOutput |->
                               [executionOutput |-> "2", executionError |-> "warn"],
                           finalResponse |-> [text |-> "end"]]])
\* a well-formed rationale followed by an invocation input without its code
EvPartial ==
    Orch([rationale |-> [text |-> "half"],
          invocationInput |-> [codeInterpreterInvocationInput |-> Empty]])
\* a rationale without its text followed by a well-formed invocation input and a
\* well-formed code-interpreter output
EvBadThenError ==
    Orch([rationale |-> Empty,
          invocationInput |-> [knowledgeBaseLookupInput |-> [text |-> "lost"]],
          observation |-> [codeInterpreterInvocationOutput |->
                               [executionOutput |-> "out", executionError |-> "late"]]])
EvGuardrail ==
    [trace |-> [trace |-> [guardrailTrace |-> [inputAssessments |-> <<
        [contentPolicy |-> [filters |-> <<
             [action |-> "BLOCKED", type |-> "HATE", confidence |-> "HIGH"],
             [action |-> "NONE", type |-> "INSULTS", confidence |-> "LOW"]>>],
         topicPolicy |-> [topics |-> <<
             [action |-> "BLOCKED", name |-> "finance"],
             [action |-> "NONE", name |-> "sports"]>>]]>>]]]]
EvGuardrailBad ==
    [trace |-> [trace |-> [guardrailTrace |-> [inputAssessments |-> <<
        [contentPolicy |-> [filters |-> <<
             [action |-> "BLOCKED", type |-> "VIOLENCE", confidence |-> "HIGH"],
             [type |-> "HATE", confidence |-> "LOW"]>>],
         topicPolicy |-> [topics |-> <<[action |-> "BLOCKED", name |-> "weapons"]>>]]>>]]]]
EvTraceNoInner == [trace |-> Empty]
EvOtherTrace == [trace |-> [trace |-> [preProcessingTrace |-> Empty]]]
EvUnknown == [returnControl |-> Empty]
EvChunkDone == [chunk |-> [bytes |-> BytesDone]]
EvChunkCafe == [chunk |-> [bytes |-> BytesCafe]]
EvChunkNoBytes == [chunk |-> [attribution |-> Empty]]
EvChunkBadUtf8 == [chunk |-> [bytes |-> <<100, 255>>]]
\* a chunk with bytes in an event whose trace wrapper has no inner trace
EvBadTraceChunk == [trace |-> Empty, chunk |-> [bytes |-> BytesDone]]
\* a chunk with bytes in an event that also carries a rationale
EvRationaleChunk ==
    [trace |-> [trace |-> [orchestrationTrace |-> [rationale |-> [text |-> "last"]]]],
     chunk |-> [bytes |-> BytesDone]]
FileChart == [name |-> "chart.png", type |-> "image/png", bytes |-> PngData]
FilePlot == [name |-> "plot.png", type |-> "image/png", bytes |-> PngData]
FileCsv == [name |-> "data.csv", type |-> "text/csv", bytes |-> CsvData]
EvPng == [files |-> [files |-> <<FileChart>>]]
EvPngPair == [files |-> [files |-> <<FilePlot, FileChart>>]]
EvCsv == [files |-> [files |-> <<FileCsv>>]]
EvFileNoType == [files |-> [files |-> <<FileCsv, [name |-> "x.bin", bytes |-> CsvData]>>]]
EvPngJunk ==
    [files |-> [files |-> <<[name |-> "chart.png", type |-> "image/png",
                             bytes |-> CsvData]>>]]

Events ==
    { EvRationale, EvRationaleNoText, EvCodeInput, EvKbInput, EvAgInput,
      EvExecOutput, EvExecError, EvKbOutput, EvKbOutputBadRef, EvAgOutput, EvFinal,
      EvMulti, EvPartial, EvBadThenError, EvGuardrail, EvGuardrailBad,
      EvTraceNoInner, EvOtherTrace, EvUnknown,
      EvChunkDone, EvChunkCafe, EvChunkNoBytes, EvChunkBadUtf8, EvBadTraceChunk,
      EvRationaleChunk,
      EvPng, EvPngPair, EvCsv, EvFileNoType, EvPngJunk }

(***************************************************************************)
(* The browser session of chatbot_st.py.  Streamlit runs the script from   *)
(* top to bottom once per interaction; st.session_state outlives the run.  *)
(* An exception that leaves the script ends the run and keeps what the run *)
(* had stored in st.session_state.  A run that takes a prompt is a chat    *)
(* turn: ChatTurnStart, the invoke_bedrock_agent call, ChatTurnRender.     *)
(***************************************************************************)
\* str(random.randint(0, 9))
DigitStr(d) == <<"0", "1", "2", "3", "4", "5", "6", "7", "8", "9">>[d + 1]

\* generate_random_15digit with the 15 values random.randint returned
RECURSIVE GenerateRandom15Digit(_)
GenerateRandom15Digit(draws) ==
    IF draws = <<>> THEN ""
    ELSE GenerateRandom15Digit(SubSeq(draws, 1, Len(draws) - 1))
             \o DigitStr(draws[Len(draws)])

\* the outcomes of the 15 draws that are explored
RandomDraws ==
    { [i \in 1..15 |-> 7], [i \in 1..15 |-> i % 10] }

\* what the user types: "hi", "why"
Prompts == { <<104, 105>>, <<119, 104, 121>> }

\* {"role": "user", "content": [{"text": prompt}]}
UserMessage(prompt) == [role |-> "user", content |-> <<[text |-> prompt]>>]

\* full_response = ""
full_response == <<>>

\* {"role": "assistant", "content": [{"text": f"{full_response}"}], "images": ..., "traces": ...}
AssistantMessage(result) ==
    [role |-> "assistant", content |-> <<[text |-> full_response]>>,
     images |-> result.images, traces |-> result.traces]

\* for message in st.session_state.messages: st.markdown(message["content"][0]["text"])
Replay(history) == [i \in 1..Len(history) |-> history[i].content[1].text]

\* the record of one invoke_bedrock_agent call: its arguments, and once it has
\* returned the events its stream delivered and the value returned
CallRecord(inputText, sessionId) ==
    [inputText |-> inputText, sessionId |-> sessionId, stream |-> <<>>,
     result |-> NotReturned]

\* the script is not running
ScriptOver == pc \in {"idle", "turn_done", "turn_failed", "raised"}

\* no browser session
\* the other programs of the repository are not running
IdleLambda ==
    /\ lambda_event = <<>>
    /\ lpc = "idle"
    /\ api_response = NotReturned
    /\ put_objects = <<>>

IdleCore ==
    /\ exit_stack = None
    /\ agent_instance = None
    /\ mcp_clients = None
    /\ core_trace = <<>>
    /\ replies = <<>>

IdleInvoke ==
    /\ ipc = "idle"
    /\ invoke_args = <<>>
    /\ remote = <<>>
    /\ invoke_result = NotReturned
    /\ session_file = None

IdlePipeline ==
    /\ program = ""
    /\ ppc = "idle"
    /\ message_list = <<>>
    /\ converse_requests = <<>>
    /\ tool_executions = <<>>

IdleOthers == IdleLambda /\ IdleCore /\ IdleInvoke /\ IdlePipeline

IdleChat ==
    /\ initialized = FALSE
    /\ messages = <<>>
    /\ session_id = ""
    /\ shown = <<>>
    /\ call_log = <<>>

\* a session whose first chat turn has taken its prompt and is about to call the agent
FirstTurnStarted ==
    /\ initialized = TRUE
    /\ \E prompt \in {<<104, 105>>} :
           /\ messages = <<UserMessage(prompt)>>
           /\ shown = <<prompt>>
           /\ \E draws \in {[i \in 1..15 |-> 7]} :
                  /\ session_id = GenerateRandom15Digit(draws)
                  /\ call_log = <<CallRecord(prompt, GenerateRandom15Digit(draws))>>

\* the first run of the script: no button was clicked, nothing was typed
PageLoad ==
    /\ pc = "idle"
    /\ ~initialized
    /\ \E draws \in RandomDraws :
           /\ initialized' = TRUE
           /\ messages' = <<>>
           /\ session_id' = GenerateRandom15Digit(draws)
    /\ shown' = Replay(<<>>)
    /\ UNCHANGED call_log
    /\ UNCHANGED agentVars
    /\ UNCHANGED retryVars
    /\ UNCHANGED otherVars

\* a run of the script after a click on Clear Conversation
ClearConversation ==
    /\ ScriptOver
    /\ initialized
    /\ \E draws \in RandomDraws :
           /\ messages' = <<>>
           /\ session_id' = GenerateRandom15Digit(draws)
    /\ shown' = Replay(<<>>)
    /\ UNCHANGED <<initialized, call_log>>
    /\ UNCHANGED agentVars
    /\ UNCHANGED retryVars
    /\ UNCHANGED otherVars

\* ChatTurnStart with a session id generated for every turn
ChatTurnStartNewSession(prompt) ==
    /\ ScriptOver
    /\ initialized
    /\ Len(call_log) < MaxTurns
    /\ messages' = Append(messages, UserMessage(prompt))
    /\ shown' = Append(Replay(messages), prompt)
    /\ \E draws \in RandomDraws :
           /\ session_id' = GenerateRandom15Digit(draws)
           /\ call_log' = Append(call_log,
                                 CallRecord(prompt, GenerateRandom15Digit(draws)))
    /\ pc' = "start"
    /\ delivered' = <<>>
    /\ ret' = NotReturned
    /\ errlog' = <<>>
    /\ transport' = "ok"
    /\ UNCHANGED <<model_response, writes, warnings, invocations>>
    /\ UNCHANGED initialized
    /\ UNCHANGED retryVars
    /\ UNCHANGED otherVars

\* a run of the script after prompt was typed into the chat input, up to the
\* invoke_bedrock_agent call
ChatTurnStart(prompt) ==
    /\ ScriptOver
    /\ initialized
    /\ Len(call_log) < MaxTurns
    /\ messages' = Append(messages, UserMessage(prompt))
    /\ shown' = Append(Replay(messages), prompt)
    /\ call_log' = Append(call_log, CallRecord(prompt, session_id))
    /\ pc' = "start"
    /\ delivered' = <<>>
    /\ ret' = NotReturned
    /\ errlog' = <<>>
    /\ transport' = "ok"
    /\ UNCHANGED <<model_response, writes, warnings, invocations>>
    /\ UNCHANGED <<initialized, session_id>>
    /\ UNCHANGED retryVars
    /\ UNCHANGED otherVars

(***************************************************************************)
(* invoke_bedrock_agent and the chat turn that calls it.                   *)
(* pc: "start" (before the invoke_agent call), "loop" (at the head of the  *)
(* for loop), "returned", "raised" (an exception left the function),       *)
(* "turn_done" / "turn_failed" (the caller's turn after the return).       *)
(***************************************************************************)
FreshResult == [text |-> <<>>, images |-> <<>>, files |-> <<>>, traces |-> <<>>]

InitAgent ==
    /\ pc = "start"
    /\ delivered = <<>>
    /\ model_response = FreshResult
    /\ ret = NotReturned
    /\ writes = <<>>
    /\ warnings = <<>>
    /\ errlog = <<>>
    /\ invocations = 0
    /\ transport = "ok"

\* a NewModelResponse that hands out the dict of the call before
NewModelResponseShared == model_response

\* model_response = {"text": "", "images": [], "files": [], "traces": []}
NewModelResponse == FreshResult

\* bedrock_agent_runtime.invoke_agent(...) returns a response with a stream, and the
\* Result is created
InvokeOk ==
    /\ pc = "start"
    /\ invocations' = invocations + 1
    /\ model_response' = NewModelResponse
    /\ pc' = "loop"
    /\ UNCHANGED <<delivered, ret, writes, warnings, errlog, transport>>
    /\ UNCHANGED retryVars
    /\ UNCHANGED otherVars
    /\ UNCHANGED chatVars

\* bedrock_agent_runtime.invoke_agent(...) raises: nothing in the function catches it
InvokeRaises ==
    /\ pc = "start"
    /\ invocations' = invocations + 1
    /\ transport' = "failed"
    /\ pc' = "raised"
    /\ UNCHANGED <<delivered, model_response, ret, writes, warnings, errlog>>
    /\ UNCHANGED retryVars
    /\ UNCHANGED otherVars
    /\ UNCHANGED chatVars

\* NextEvent with the loop going on after the return statement
NextEventNoStop(event) ==
    /\ pc = "loop"
    /\ Len(delivered) < MaxEvents
    /\ LET h == HandleEvent([mr |-> model_response, writes |-> writes,
                             warnings |-> warnings, st |-> "run"], event)
       IN  /\ delivered' = Append(delivered, event)
           /\ model_response' = h.mr
           /\ writes' = h.writes
           /\ warnings' = h.warnings
           /\ errlog' = IF h.st = "exc" THEN Append(errlog, Len(delivered)) ELSE errlog
           /\ pc' = "loop"
           /\ ret' = IF h.st = "ret" THEN h.mr ELSE ret
    /\ UNCHANGED <<invocations, transport>>
    /\ UNCHANGED retryVars
    /\ UNCHANGED otherVars
    /\ UNCHANGED chatVars

\* the stream delivers event and the loop body runs on it
NextEvent(event) ==
    /\ pc = "loop"
    /\ Len(delivered) < MaxEvents
    /\ LET h == HandleEvent([mr |-> model_response, writes |-> writes,
                             warnings |-> warnings, st |-> "run"], event)
       IN  /\ delivered' = Append(delivered, event)
           /\ model_response' = h.mr
           /\ writes' = h.writes
           /\ warnings' = h.warnings
           /\ errlog' = IF h.st = "exc" THEN Append(errlog, Len(delivered)) ELSE errlog
           /\ IF h.st = "ret"
              THEN pc' = "returned" /\ ret' = h.mr
              ELSE pc' = "loop" /\ ret' = ret
    /\ UNCHANGED <<invocations, transport>>
    /\ UNCHANGED retryVars
    /\ UNCHANGED otherVars
    /\ UNCHANGED chatVars

\* the stream is exhausted: the function ends without a return statement
StreamEnd ==
    /\ pc = "loop"
    /\ pc' = "returned"
    /\ ret' = None
    /\ UNCHANGED <<delivered, model_response, writes, warnings, errlog, invocations,
                   transport>>
    /\ UNCHANGED retryVars
    /\ UNCHANGED otherVars
    /\ UNCHANGED chatVars

\* StreamFail with the for statement inside the try: the failure is logged, the loop goes on
StreamFailCaught ==
    /\ pc = "loop"
    /\ transport' = "failed"
    /\ errlog' = Append(errlog, Len(delivered))
    /\ pc' = "loop"
    /\ UNCHANGED <<delivered, model_response, ret, writes, warnings, invocations>>
    /\ UNCHANGED retryVars
    /\ UNCHANGED otherVars
    /\ UNCHANGED chatVars

\* the stream raises while the next record is fetched: the for statement is outside the try
StreamFail ==
    /\ pc = "loop"
    /\ transport' = "failed"
    /\ pc' = "raised"
    /\ UNCHANGED <<delivered, model_response, ret, writes, warnings, errlog, invocations>>
    /\ UNCHANGED retryVars
    /\ UNCHANGED otherVars
    /\ UNCHANGED chatVars

\* chatbot_st.py: the call has returned; result["text"] is rendered and the assistant
\* message with result["images"] and result["traces"] is stored, unless a subscript raises
ChatTurnRender ==
    /\ pc = "returned"
    /\ call_log' = [call_log EXCEPT ![Len(call_log)].stream = delivered,
                                    ![Len(call_log)].result = ret]
    /\ IF {"text", "images", "traces"} \subseteq DOMAIN ret
       THEN /\ pc' = "turn_done"
            /\ shown' = Append(shown, ret.text)
            /\ messages' = Append(messages, AssistantMessage(ret))
       ELSE /\ pc' = "turn_failed"
            /\ UNCHANGED <<shown, messages>>
    /\ UNCHANGED <<delivered, model_response, ret, writes, warnings, errlog, invocations,
                   transport>>
    /\ UNCHANGED <<initialized, session_id>>
    /\ UNCHANGED retryVars
    /\ UNCHANGED otherVars

Next ==
    \/ InvokeOk
    \/ InvokeRaises
    \/ \E event \in Events : NextEvent(event)
    \/ StreamEnd
    \/ StreamFail
    \/ ChatTurnRender

IdleRetry ==
    /\ attempt = 0
    /\ max_retries = 0
    /\ initial_delay = 0
    /\ calls = <<>>
    /\ sleeps = <<>>
    /\ rpc = "idle"
    /\ rret = NotReturned

Init == InitAgent /\ IdleRetry /\ FirstTurnStarted /\ IdleOthers
Spec == Init /\ [][Next]_vars

(***************************************************************************)
(* retry_with_backoff(func, *args, max_retries=3, initial_delay=1).        *)
(* A Python value is [ty, ...]; what one call of func does is an outcome   *)
(* [kind |-> "raise"] or [kind |-> "return", value |-> v].                 *)
(***************************************************************************)
PyNone == [ty |-> "NoneType"]
PyStr(s) == [ty |-> "str", str |-> s]
PyInt(n) == [ty |-> "int", n |-> n]
PyTuple(items) == [ty |-> "tuple", items |-> items]
PyList(items) == [ty |-> "list", items |-> items]

Raises == [kind |-> "raise"]
Returns(v) == [kind |-> "return", value |-> v]

\* what the wrapped function may do on one call
FuncOutcomes ==
    { Raises,
      Returns(PyNone),
      Returns(PyTuple(<<PyNone, PyNone>>)),        \* diagram_tool after a failed run
      Returns(PyTuple(<<PyStr("img"), PyNone>>)),
      Returns(PyTuple(<<PyStr("img"), PyStr("diagram.png")>>)),  \* diagram_tool's success
      Returns(PyTuple(<<>>)),
      Returns(PyList(<<PyNone>>)),
      Returns(PyStr("ok")),
      Returns(PyInt(42)) }

\* iter(v) succeeds
Iterable(v) == v.ty \in {"tuple", "list", "str"}

\* all(r is not None for r in result if isinstance(result, tuple)):
\* "TypeError" when result cannot be iterated, else the value of all(...).  The
\* isinstance filter sits inside the generator: for a result that is no tuple every
\* element is filtered out and all() of nothing is True.
AllNotNone(result) ==
    IF ~Iterable(result) THEN "TypeError"
    ELSE IF result.ty = "tuple"
    THEN IF \A i \in 1..Len(result.items) : result.items[i] # PyNone
         THEN "True" ELSE "False"
    ELSE "True"

DefaultInitialDelay == 1

InitRetry ==
    /\ max_retries \in 0..MaxRetriesArg
    /\ initial_delay \in {DefaultInitialDelay, 2}
    /\ attempt = 0
    /\ calls = <<>>
    /\ sleeps = <<>>
    /\ rpc = "loop"
    /\ rret = NotReturned

\* SleepAfter without the 'if attempt < max_retries - 1' test
SleepAfterEveryAttempt(failed_attempt) ==
    Append(sleeps, initial_delay * (2 ^ failed_attempt))

\* the sleep at the end of a failed attempt: not after the last one
SleepAfter(failed_attempt) ==
    IF failed_attempt < max_retries - 1
    THEN Append(sleeps, initial_delay * (2 ^ failed_attempt))
    ELSE sleeps

\* one iteration of 'for attempt in range(max_retries)': func is called and does outcome
Attempt(outcome) ==
    /\ rpc = "loop"
    /\ attempt < max_retries
    /\ calls' = Append(calls, outcome)
    /\ IF outcome.kind = "return" /\ AllNotNone(outcome.value) = "True"
       THEN /\ rpc' = "returned"
            /\ rret' = outcome.value
            /\ UNCHANGED <<attempt, sleeps>>
       ELSE /\ sleeps' = SleepAfter(attempt)
            /\ attempt' = attempt + 1
            /\ UNCHANGED <<rpc, rret>>
    /\ UNCHANGED <<max_retries, initial_delay>>
    /\ UNCHANGED agentVars
    /\ UNCHANGED chatVars
    /\ UNCHANGED otherVars

\* the loop is over: return None, None
GiveUp ==
    /\ rpc = "loop"
    /\ attempt >= max_retries
    /\ rpc' = "gave_up"
    /\ rret' = PyTuple(<<PyNone, PyNone>>)
    /\ UNCHANGED <<attempt, max_retries, initial_delay, calls, sleeps>>
    /\ UNCHANGED agentVars
    /\ UNCHANGED chatVars
    /\ UNCHANGED otherVars

IdleAgent ==
    /\ pc = "idle"
    /\ delivered = <<>>
    /\ model_response = FreshResult
    /\ ret = NotReturned
    /\ writes = <<>>
    /\ warnings = <<>>
    /\ errlog = <<>>
    /\ invocations = 0
    /\ transport = "ok"

NextRetry ==
    \/ \E outcome \in FuncOutcomes : Attempt(outcome)
    \/ GiveUp

RetryInit == InitRetry /\ IdleAgent /\ IdleChat /\ IdleOthers
SpecRetry == RetryInit /\ [][NextRetry]_vars

(***************************************************************************)
(* The browser session as a whole: page load, chat turns, clearing.  The   *)
(* event streams of its agent calls are the prefixes of ChatStreams.       *)
(***************************************************************************)
ChatStreams ==
    { <<EvRationale, EvChunkDone>>,
      <<EvPng, EvCsv, EvChunkCafe>>,
      <<EvMulti, EvGuardrail, EvChunkDone>>,
      <<EvPartial, EvChunkBadUtf8>> }

\* the stream delivers the next event of one of the ChatStreams
NextChatEvent ==
    \E stream \in ChatStreams :
        /\ Len(delivered) < Len(stream)
        /\ SubSeq(stream, 1, Len(delivered)) = delivered
        /\ NextEvent(stream[Len(delivered) + 1])

NextChat ==
    \/ PageLoad
    \/ ClearConversation
    \/ \E prompt \in Prompts : ChatTurnStart(prompt)
    \/ InvokeOk
    \/ InvokeRaises
    \/ NextChatEvent
    \/ StreamEnd
    \/ StreamFail
    \/ ChatTurnRender

ChatInit == IdleChat /\ IdleAgent /\ IdleRetry /\ IdleOthers
SpecChat == ChatInit /\ [][NextChat]_vars

(***************************************************************************)
(* Part 4: lambda_handler of gen_aws_diag_docker/lambda_handler.py, the    *)
(* action-group Lambda that draws a diagram: retry_with_backoff around     *)
(* diagram_tool, then upload_to_s3.  The retry loop is the one of part 2,  *)
(* called with its default arguments.  Creating a client, image.save into  *)
(* memory and the prints do not fail; s3_client.put_object may.            *)
(***************************************************************************)
DictGet(d, k, default) == IF HasKey(d, k) THEN d[k] ELSE default   \* d.get(k, default)

DefaultMaxRetries == 3

\* events as the agent runtime sends them; "function" and "inputText" are read with get
LambdaEvents ==
    { [messageVersion |-> "1.0", actionGroup |-> "diagrams", function |-> "gen_diagram",
       inputText |-> "a vpc", parameters |-> <<>>],
      [messageVersion |-> "1.0", actionGroup |-> "diagrams", inputText |-> "a vpc"],
      [messageVersion |-> "2.0", actionGroup |-> "drawings", function |-> "draw"] }

\* what diagram_tool does on one call: an exception of call_claude_3_fill or
\* process_code, (None, None) after a failed run, (img, file_name) after a good one
DiagramToolOutcomes ==
    { Raises,
      Returns(PyTuple(<<PyNone, PyNone>>)),
      Returns(PyTuple(<<PyStr("img"), PyStr("diagram.png")>>)),
      Returns(PyTuple(<<PyStr("img"), PyStr("arch.JPG")>>)) }

\* file_name.lower().endswith((".jpg", ".jpeg")), on the file names of the model
JpegNames == {"arch.JPG"}

\* what upload_to_s3 finds: the bucket variable, the clock, the uuid, and what
\* put_object does
S3Environments ==
    [bucket : {"diagram-bucket"},
     timestamp : {"20250101_120000"},
     unique_id : {"1a2b3c4d", "ffffffff"},
     put_object : {"ok", "raise"}]

\* upload_to_s3(file_bytes, file_name): the put_object call made and the value returned
UploadToS3(file_name, env) ==
    LET s3_key == "uploaded_images/" \o env.timestamp \o "_" \o env.unique_id
                      \o "_" \o file_name
        content_type == IF file_name \in JpegNames THEN "image/jpeg" ELSE "image/png"
        url == "https://" \o env.bucket \o ".s3.amazonaws.com/" \o s3_key
    IN  [Bucket |-> env.bucket, Key |-> s3_key, ContentType |-> content_type,
         result |-> IF env.put_object = "ok" THEN PyStr(url) ELSE PyNone]

\* str({"image_url": image_url})
StrOfResults(image_url) == "{'image_url': '" \o image_url \o "'}"

\* the response dict of the three return statements
ActionResponse(event, body) ==
    [messageVersion |-> event.messageVersion,
     response |-> [actionGroup |-> event.actionGroup,
                   function |-> DictGet(event, "function", ""),
                   functionResponse |-> [responseBody |-> [TEXT |-> [body |-> body]]]]]

\* lambda_handler was invoked and is about to call retry_with_backoff(diagram_tool, inputText)
InitLambda ==
    /\ lambda_event \in LambdaEvents
    /\ lpc = "generate"
    /\ api_response = NotReturned
    /\ put_objects = <<>>
    /\ attempt = 0
    /\ max_retries = DefaultMaxRetries
    /\ initial_delay = DefaultInitialDelay
    /\ calls = <<>>
    /\ sleeps = <<>>
    /\ rpc = "loop"
    /\ rret = NotReturned

\* one iteration of the retry loop, with diagram_tool as func
DiagramAttempt(outcome) ==
    /\ lpc = "generate"
    /\ Attempt(outcome)

\* the retry loop ends without a diagram
DiagramGiveUp ==
    /\ lpc = "generate"
    /\ GiveUp

\* lines 322-339: unpack what retry_with_backoff returned; without an image or a
\* file name return the generation error, else save the image into memory
GenerationDone ==
    /\ lpc = "generate"
    /\ rpc \in {"returned", "gave_up"}
    /\ LET image == rret.items[1]
           file_name == rret.items[2]
       IN  IF image = PyNone \/ file_name = PyNone
           THEN /\ api_response' = ActionResponse(lambda_event, "Error generating diagram")
                /\ lpc' = "returned"
           ELSE /\ lpc' = "upload"
                /\ UNCHANGED api_response
    /\ UNCHANGED <<lambda_event, put_objects>>
    /\ UNCHANGED <<agentVars, retryVars, chatVars>>
    /\ UNCHANGED <<coreVars, invokeVars, pipelineVars>>

\* Upload that reports a failed upload as a failed generation
UploadReportsGeneration(env) ==
    /\ lpc = "upload"
    /\ LET put == UploadToS3(rret.items[2].str, env)
       IN  /\ put_objects' = Append(put_objects, put)
           /\ api_response' =
                  IF put.result = PyNone
                  THEN ActionResponse(lambda_event, "Error generating diagram")
                  ELSE ActionResponse(lambda_event, StrOfResults(put.result.str))
    /\ lpc' = "returned"
    /\ UNCHANGED lambda_event
    /\ UNCHANGED <<agentVars, retryVars, chatVars>>
    /\ UNCHANGED <<coreVars, invokeVars, pipelineVars>>

\* lines 342-373: upload the image and return the upload error or the URL
Upload(env) ==
    /\ lpc = "upload"
    /\ LET put == UploadToS3(rret.items[2].str, env)
       IN  /\ put_objects' = Append(put_objects, put)
           /\ api_response' =
                  IF put.result = PyNone
                  THEN ActionResponse(lambda_event, "Error uploading to S3")
                  ELSE ActionResponse(lambda_event, StrOfResults(put.result.str))
    /\ lpc' = "returned"
    /\ UNCHANGED lambda_event
    /\ UNCHANGED <<agentVars, retryVars, chatVars>>
    /\ UNCHANGED <<coreVars, invokeVars, pipelineVars>>

NextLambda ==
    \/ \E outcome \in DiagramToolOutcomes : DiagramAttempt(outcome)
    \/ DiagramGiveUp
    \/ GenerationDone
    \/ \E env \in S3Environments : Upload(env)

LambdaInit ==
    InitLambda /\ IdleAgent /\ IdleChat /\ IdleCore /\ IdleInvoke /\ IdlePipeline
SpecLambda == LambdaInit /\ [][NextLambda]_vars

(***************************************************************************)
(* Part 5: prod_agent/cdk_agent_core.py, the entrypoint docs_diag_agent    *)
(* with its three module globals.  Objects are told apart by the number of *)
(* the request that created them.  core_trace lists the calls made on the  *)
(* collaborators (ExitStack, MCP clients, Agent); a fault names the one    *)
(* call that raises in a request, if it is reached.  ExitStack.close and   *)
(* the logger do not fail.                                                 *)
(***************************************************************************)
ClientNames == <<"aws_docs_client", "aws_cdk_client", "aws_pricing_client">>

Faults ==
    { [at |-> "none", k |-> 0],
      [at |-> "payload.get", k |-> 0],         \* payload is no dict
      [at |-> "create_mcp_clients", k |-> 0],
      [at |-> "Agent", k |-> 0],
      [at |-> "agent()", k |-> 0],
      [at |-> "response.message", k |-> 0] }   \* no text in the first content block
    \cup { [at |-> "enter_context", k |-> k] : k \in 1..3 }
    \cup { [at |-> "list_tools_sync", k |-> k] : k \in 1..3 }

\* the module globals, the trace, and whether an exception is being raised
Globals ==
    [exit_stack |-> exit_stack, agent_instance |-> agent_instance,
     mcp_clients |-> mcp_clients, trace |-> core_trace, st |-> "run"]

Traced(g, entry) == [g EXCEPT !.trace = Append(g.trace, entry)]

\* for client in mcp_clients: exit_stack.enter_context(client), from the k-th client on
RECURSIVE EnterContexts(_, _, _)
EnterContexts(g, k, fault) ==
    IF k > Len(ClientNames) THEN g
    ELSE IF fault.at = "enter_context" /\ fault.k = k THEN Raise(g)
    ELSE EnterContexts(Traced(g, [op |-> "enter", client |-> ClientNames[k],
                                  stack |-> g.exit_stack.stack]),
                       k + 1, fault)

\* aws_docs_client.list_tools_sync() + aws_cdk_client... + aws_pricing_client...
RECURSIVE ListTools(_, _, _)
ListTools(g, k, fault) ==
    IF g.st = "exc" \/ k > Len(ClientNames) THEN g
    ELSE IF fault.at = "list_tools_sync" /\ fault.k = k THEN Raise(g)
    ELSE ListTools(Traced(g, [op |-> "list_tools", client |-> ClientNames[k],
                              stack |-> g.exit_stack.stack]),
                   k + 1, fault)

\* initialize_agent without the early return of line 80
InitializeAgentAlways(g, n, fault) ==
    LET g1 == Traced([g EXCEPT !.exit_stack = [stack |-> n]],
                     [op |-> "ExitStack", stack |-> n])
    IN  IF fault.at = "create_mcp_clients" THEN Raise(g1)
        ELSE
        LET g2 == Traced([g1 EXCEPT !.mcp_clients = PyList(ClientNames)],
                         [op |-> "create_mcp_clients", stack |-> n])
            g3 == ListTools(EnterContexts(g2, 1, fault), 1, fault)
        IN  IF g3.st = "exc" THEN g3
            ELSE IF fault.at = "Agent" THEN Raise(g3)
            ELSE Traced([g3 EXCEPT !.agent_instance = [agent |-> n]],
                        [op |-> "Agent", agent |-> n])

\* initialize_agent(), called in request n
InitializeAgent(g, n, fault) ==
    IF g.agent_instance # None THEN g
    ELSE
    LET g1 == Traced([g EXCEPT !.exit_stack = [stack |-> n]],
                     [op |-> "ExitStack", stack |-> n])
    IN  IF fault.at = "create_mcp_clients" THEN Raise(g1)
        ELSE
        LET g2 == Traced([g1 EXCEPT !.mcp_clients = PyList(ClientNames)],
                         [op |-> "create_mcp_clients", stack |-> n])
            g3 == ListTools(EnterContexts(g2, 1, fault), 1, fault)
        IN  IF g3.st = "exc" THEN g3
            ELSE IF fault.at = "Agent" THEN Raise(g3)
            ELSE Traced([g3 EXCEPT !.agent_instance = [agent |-> n]],
                        [op |-> "Agent", agent |-> n])

\* cleanup_resources that leaves agent_instance as it is
CleanupKeepsAgent(g) ==
    IF g.exit_stack # None
    THEN [Traced(g, [op |-> "close", stack |-> g.exit_stack.stack])
             EXCEPT !.exit_stack = None, !.mcp_clients = None]
    ELSE g

\* cleanup_resources()
CleanupResources(g) ==
    IF g.exit_stack # None
    THEN [Traced(g, [op |-> "close", stack |-> g.exit_stack.stack])
             EXCEPT !.exit_stack = None, !.agent_instance = None, !.mcp_clients = None]
    ELSE g

\* the try block of docs_diag_agent in request n
TryRequest(g, n, fault) ==
    IF fault.at = "payload.get" THEN Raise(g)
    ELSE
    LET g1 == InitializeAgent(g, n, fault)
    IN  IF g1.st = "exc" THEN g1
        ELSE IF fault.at = "agent()"
        THEN Raise(Traced(g1, [op |-> "agent()", agent |-> g1.agent_instance.agent,
                               ok |-> FALSE]))
        ELSE
        LET g2 == Traced(g1, [op |-> "agent()", agent |-> g1.agent_instance.agent,
                              ok |-> TRUE])
        IN  IF fault.at = "response.message" THEN Raise(g2) ELSE g2

\* one request: docs_diag_agent(payload), with its except clause
DocsDiagAgent(fault) ==
    /\ Len(replies) < MaxRequests
    /\ LET n == Len(replies) + 1
           tried == TryRequest(Globals, n, fault)
           g == IF tried.st = "exc" THEN CleanupResources(tried) ELSE tried
       IN  /\ exit_stack' = g.exit_stack
           /\ agent_instance' = g.agent_instance
           /\ mcp_clients' = g.mcp_clients
           /\ core_trace' = g.trace
           /\ replies' = Append(replies,
                  IF tried.st = "exc" THEN [kind |-> "raise"]
                  ELSE [kind |-> "return", agent |-> g.agent_instance.agent])
    /\ UNCHANGED <<agentVars, retryVars, chatVars>>
    /\ UNCHANGED <<lambdaVars, invokeVars, pipelineVars>>

NextCore == \E fault \in Faults : DocsDiagAgent(fault)

CoreInit ==
    IdleCore /\ IdleAgent /\ IdleRetry /\ IdleChat /\ IdleLambda /\ IdleInvoke /\ IdlePipeline
SpecCore == CoreInit /\ [][NextCore]_vars

(***************************************************************************)
(* Part 6: invoke_agent and the end of main of                             *)
(* prod_agent/invoke_cdk_agent.py.  The remote call either raises or       *)
(* returns a response dict; its body object gives bytes to read() and      *)
(* lines to iter_lines(), and either may raise.  Creating the client,      *)
(* json.dumps of the prompt, the prints and the file write do not fail.    *)
(***************************************************************************)
DataPrefix == <<100, 97, 116, 97, 58, 32>>      \* "data: "

\* the lines an event stream may hold: b"", b"data: a", b"hi", b"\xff"
StreamLines == { <<>>, DataPrefix \o <<97>>, <<104, 105>>, <<255>> }

\* the bodies of a non-streaming response: b"", b'"hi"', b"hi", b"\xff"
BodyBytes == { <<>>, <<34, 104, 105, 34>>, <<104, 105>>, <<255>> }

SeqsUpTo(S, n) == UNION { [1..k -> S] : k \in 0..n }

\* "text/event-stream" in contentType, on the content types of the model
EventStreamTypes == {"text/event-stream", "text/event-stream; charset=utf-8"}

\* the response["response"] objects: what read() and iter_lines() give
StreamingBodies ==
    { [data |-> <<>>, read |-> "ok", lines |-> lines, iter_lines |-> it] :
          lines \in SeqsUpTo(StreamLines, MaxLines), it \in {"ok", "raise"} }
PlainBodies ==
    { [data |-> data, read |-> rd, lines |-> <<>>, iter_lines |-> "ok"] :
          data \in BodyBytes, rd \in {"ok", "raise"} }

\* what client.invoke_agent_runtime does
RemoteOutcomes ==
    { Raises }
    \cup { Returns([contentType |-> ct, response |-> body]) :
               ct \in {"text/event-stream; charset=utf-8"}, body \in StreamingBodies }
    \cup { Returns([contentType |-> "text/event-stream"]) }
    \cup { Returns([contentType |-> "application/json", response |-> body]) :
               body \in PlainBodies }
    \cup { Returns([response |-> body]) : body \in PlainBodies }
    \cup { Returns([contentType |-> "application/json"]) }

\* json.loads on the texts of the model: a string literal without escapes is its
\* characters, anything else is a JSONDecodeError
JsonLoads(text) ==
    IF /\ Len(text) >= 2
       /\ text[1] = 34
       /\ text[Len(text)] = 34
       /\ \A i \in 2..(Len(text) - 1) : text[i] \notin {34, 92} /\ text[i] >= 32
    THEN [ok |-> TRUE, value |-> [json |-> "string", chars |-> SubSeq(text, 2, Len(text) - 1)]]
    ELSE [ok |-> FALSE]

\* lines 81-88: the loop over iter_lines; st is "exc" when a line does not decode
RECURSIVE CollectLines(_, _)
CollectLines(lines, content) ==
    IF lines = <<>> THEN [st |-> "run", content |-> content]
    ELSE LET line == Head(lines)
             decoded == Utf8Decode(line)
         IN  IF line = <<>> THEN CollectLines(Tail(lines), content)
             ELSE IF ~decoded.ok THEN [st |-> "exc", content |-> content]
             ELSE IF IsPrefix(DataPrefix, decoded.cps)
             THEN CollectLines(Tail(lines),
                      Append(content, SubSeq(decoded.cps, 7, Len(decoded.cps))))
             ELSE CollectLines(Tail(lines), content)

ErrorResult(name, session) == [error |-> name, session_id |-> session]
ResponseResult(value, session) == [response |-> value, session_id |-> session]

\* lines 80-90: the event-stream branch
StreamingBranch(response, session) ==
    IF ~HasKey(response, "response") THEN ErrorResult("KeyError", session)
    ELSE LET collected == CollectLines(response.response.lines, <<>>)
         IN  IF collected.st = "exc" THEN ErrorResult("UnicodeDecodeError", session)
             ELSE IF response.response.iter_lines = "raise"
             THEN ErrorResult("stream error", session)
             ELSE ResponseResult(collected.content, session)

\* lines 92-110: the other branch, with its own except clause.  read() of the
\* default b"" and a read() that raises both leave response_body unbound, and the
\* except clause then raises UnboundLocalError itself; bytes that are no UTF-8
\* raise again when the except clause decodes them.  The outer except clause
\* catches both.
PlainBranch(response, session) ==
    IF ~HasKey(response, "response") \/ response.response.read = "raise"
    THEN ErrorResult("UnboundLocalError", session)
    ELSE LET response_body == response.response.data
             decoded == Utf8Decode(response_body)
         IN  IF response_body = <<>> THEN ResponseResult(<<>>, session)
             ELSE IF ~decoded.ok THEN ErrorResult("UnicodeDecodeError", session)
             ELSE IF JsonLoads(decoded.cps).ok
             THEN ResponseResult(JsonLoads(decoded.cps).value, session)
             ELSE ResponseResult(decoded.cps, session)

\* invoke_agent(agent_arn, prompt, session_id, region)
InvokeAgent(args, outcome) ==
    LET session == IF args.session_id = PyNone \/ args.session_id = PyStr("")
                   THEN args.uuid4 ELSE args.session_id.str
    IN  IF outcome.kind = "raise" THEN ErrorResult("remote error", session)
        ELSE IF DictGet(outcome.value, "contentType", "") \in EventStreamTypes
        THEN StreamingBranch(outcome.value, session)
        ELSE PlainBranch(outcome.value, session)

\* main, line 149: called with an agent ARN, about to call invoke_agent
InitInvoke ==
    /\ ipc = "invoke"
    /\ invoke_args \in [session_id : {PyNone, PyStr(""), PyStr("sess-1")},
                        uuid4 : {"0f8fad5b-d9cb-469f-a165-70867728950e"}]
    /\ remote \in RemoteOutcomes
    /\ invoke_result = NotReturned
    /\ session_file = None

\* main, line 149: result = invoke_agent(...)
InvokeAgentCall ==
    /\ ipc = "invoke"
    /\ invoke_result' = InvokeAgent(invoke_args, remote)
    /\ ipc' = "returned"
    /\ UNCHANGED <<invoke_args, remote, session_file>>
    /\ UNCHANGED <<agentVars, retryVars, chatVars>>
    /\ UNCHANGED <<lambdaVars, coreVars, pipelineVars>>

\* main, lines 152-158: print the result and write result["session_id"] to the file
SaveSession ==
    /\ ipc = "returned"
    /\ HasKey(invoke_result, "session_id")
    /\ session_file' = [written |-> invoke_result.session_id]
    /\ ipc' = "saved"
    /\ UNCHANGED <<invoke_args, remote, invoke_result>>
    /\ UNCHANGED <<agentVars, retryVars, chatVars>>
    /\ UNCHANGED <<lambdaVars, coreVars, pipelineVars>>

NextInvoke == InvokeAgentCall \/ SaveSession

InvokeInit ==
    InitInvoke /\ IdleAgent /\ IdleRetry /\ IdleChat /\ IdleLambda /\ IdleCore /\ IdlePipeline
SpecInvoke == InvokeInit /\ [][NextInvoke]_vars

(***************************************************************************)
(* Part 7: the tool-use pipeline: main of agentic_workflow/agentic_tools.py *)
(* and lambda_function_pipeline of create_lambda_functions.py, with their   *)
(* process_llm_response.  The two differ in the tools they run: the first   *)
(* knows cosine and create_lambda_function, the second the latter only.     *)
(* bedrock.converse either raises or returns a message; a deployment ends   *)
(* well, with a ClientError, or with another exception (packaging, upload). *)
(* math.cos(x) is kept as the term [cos |-> x].                             *)
(***************************************************************************)
Programs == {"agentic_tools", "create_lambda_functions"}

KnownTools(prog) ==
    IF prog = "agentic_tools" THEN {"cosine", "create_lambda_function"}
    ELSE {"create_lambda_function"}

CreateInputKeys ==
    {"code", "function_name", "description", "has_external_python_libraries",
     "external_python_libraries"}

\* the content blocks a model message is made of
ContentBlocks ==
    { [text |-> "Here is the function."],
      [toolUse |-> [toolUseId |-> "tooluse_1", name |-> "cosine", input |-> [x |-> 0]]],
      [toolUse |-> [toolUseId |-> "tooluse_2", name |-> "create_lambda_function",
                    input |-> [code |-> "def lambda_handler(event, context): ...",
                               function_name |-> "factorial",
                               description |-> "factorial of a number",
                               has_external_python_libraries |-> FALSE,
                               external_python_libraries |-> <<>>]]],
      [toolUse |-> [toolUseId |-> "tooluse_3", name |-> "create_lambda_function",
                    input |-> [function_name |-> "factorial"]]],
      [toolUse |-> [toolUseId |-> "tooluse_4", name |-> "get_weather",
                    input |-> [city |-> "Oslo"]]] }

\* what bedrock.converse does: response["output"]["message"], or an exception
ConverseOutcomes ==
    { Raises }
    \cup { Returns([role |-> "assistant", content |-> blocks]) :
               blocks \in SeqsUpTo(ContentBlocks, MaxBlocks) }

DeployOutcomes == {"ok", "ClientError", "raise"}

\* create_lambda_function(...): the str it returns, for the two ways it returns
CreateLambdaFunction(function_name, deploy) ==
    IF deploy = "ok"
    THEN "The function " \o function_name \o " has been deployed to the customer's AWS account."
    ELSE "Error: ClientError\n Let me try again..."

ToolResult(tool_use_block, value) ==
    [toolResult |-> [toolUseId |-> tool_use_block.toolUseId,
                     content |-> <<[json |-> [result |-> value]]>>]]

\* the state of one process_llm_response call: the follow-up blocks, the tools
\* run, and "exc" once an exception is raised
ProcessStart == [blocks |-> <<>>, runs |-> <<>>, st |-> "run"]

\* one iteration of 'for content_block in response_content_blocks'
ProcessBlock(p, prog, content_block, deploy) ==
    IF ~HasKey(content_block, "toolUse") THEN p
    ELSE
    LET tool_use_block == content_block.toolUse
        tool_use_name == tool_use_block.name
        run == [toolUseId |-> tool_use_block.toolUseId, name |-> tool_use_name]
    IN  IF tool_use_name = "cosine" /\ "cosine" \in KnownTools(prog)
        THEN IF ~HasKey(tool_use_block.input, "x") THEN [p EXCEPT !.st = "exc"]
             ELSE [p EXCEPT !.runs = Append(@, run),
                            !.blocks = Append(@, ToolResult(tool_use_block,
                                                  [cos |-> tool_use_block.input.x]))]
        ELSE IF tool_use_name = "create_lambda_function"
        THEN IF ~(CreateInputKeys \subseteq DOMAIN tool_use_block.input)
             THEN [p EXCEPT !.st = "exc"]
             ELSE IF deploy = "raise"
             THEN [p EXCEPT !.runs = Append(@, run), !.st = "exc"]
             ELSE [p EXCEPT !.runs = Append(@, run),
                            !.blocks = Append(@, ToolResult(tool_use_block,
                                [str |-> CreateLambdaFunction(
                                             tool_use_block.input.function_name, deploy)]))]
        ELSE p

\* process_llm_response(response_message, lambda_client, s3)
RECURSIVE ProcessLLMResponse(_, _, _, _)
ProcessLLMResponse(p, prog, content, deploy) ==
    IF p.st = "exc" \/ content = <<>> THEN p
    ELSE ProcessLLMResponse(ProcessBlock(p, prog, Head(content), deploy),
                            prog, Tail(content), deploy)

InitialMessage == [role |-> "user", content |-> <<[text |-> "Create a Lambda function."]>>]

\* the run has built its message list and is about to make the initial request
InitPipeline ==
    /\ program \in Programs
    /\ ppc = "first"
    /\ message_list = <<InitialMessage>>
    /\ converse_requests = <<>>
    /\ tool_executions = <<>>

Executions(p, request) ==
    [i \in 1..Len(p.runs) |-> [request |-> request, toolUseId |-> p.runs[i].toolUseId,
                               name |-> p.runs[i].name]]

\* the initial request, the processing of its response, and the follow-up message
FirstRequest(outcome, deploy) ==
    /\ ppc = "first"
    /\ converse_requests' = Append(converse_requests, message_list)
    /\ IF outcome.kind = "raise"
       THEN /\ ppc' = "raised"
            /\ UNCHANGED <<message_list, tool_executions>>
       ELSE LET response_message == outcome.value
                p == ProcessLLMResponse(ProcessStart, program,
                                        response_message.content, deploy)
                follow_up_message == [role |-> "user", content |-> p.blocks]
            IN  /\ tool_executions' = tool_executions \o Executions(p, 1)
                /\ IF p.st = "exc"
                   THEN /\ message_list' = Append(message_list, response_message)
                        /\ ppc' = "raised"
                   ELSE IF p.blocks # <<>>
                   THEN /\ message_list' = message_list
                                               \o <<response_message, follow_up_message>>
                        /\ ppc' = "second"
                   ELSE /\ message_list' = Append(message_list, response_message)
                        /\ ppc' = "done"
    /\ UNCHANGED program
    /\ UNCHANGED <<agentVars, retryVars, chatVars>>
    /\ UNCHANGED <<lambdaVars, coreVars, invokeVars>>

\* the follow-up request and the processing of the final response
SecondRequest(outcome, deploy) ==
    /\ ppc = "second"
    /\ converse_requests' = Append(converse_requests, message_list)
    /\ IF outcome.kind = "raise"
       THEN /\ ppc' = "raised"
            /\ UNCHANGED <<message_list, tool_executions>>
       ELSE LET response_message == outcome.value
                p == ProcessLLMResponse(ProcessStart, program,
                                        response_message.content, deploy)
            IN  /\ message_list' = Append(message_list, response_message)
                /\ tool_executions' = tool_executions \o Executions(p, 2)
                /\ ppc' = IF p.st = "exc" THEN "raised" ELSE "done"
    /\ UNCHANGED program
    /\ UNCHANGED <<agentVars, retryVars, chatVars>>
    /\ UNCHANGED <<lambdaVars, coreVars, invokeVars>>

NextPipeline ==
    \/ \E outcome \in ConverseOutcomes, deploy \in DeployOutcomes :
           FirstRequest(outcome, deploy)
    \/ \E outcome \in ConverseOutcomes, deploy \in DeployOutcomes :
           SecondRequest(outcome, deploy)

PipelineInit ==
    InitPipeline /\ IdleAgent /\ IdleRetry /\ IdleChat /\ IdleLambda /\ IdleCore /\ IdleInvoke
SpecPipeline == PipelineInit /\ [][NextPipeline]_vars

(***************************************************************************)
(* Properties of invoke_bedrock_agent, checked under Spec.                 *)
(***************************************************************************)
Past(position) == position \in {"returned", "turn_done", "turn_failed"}
Skipped(i) == \E k \in 1..Len(errlog) : errlog[k] = i - 1   \* the handler of event i raised
HasChunkBytes(event) == HasKey(event, "chunk") /\ HasKey(event.chunk, "bytes")
IsOrch(event) ==
    /\ HasKey(event, "trace")
    /\ HasKey(event.trace, "trace")
    /\ HasKey(event.trace.trace, "orchestrationTrace")
TraceEventOf(event) == event.trace.trace.orchestrationTrace
HasRationale(event) == IsOrch(event) /\ HasKey(TraceEventOf(event), "rationale")
HasRationaleText(event) ==
    HasRationale(event) /\ HasKey(TraceEventOf(event).rationale, "text")
IsRationaleEntry(entry) == entry.trace_type = "rationale"
HasEntry(type, text) ==
    \E j \in 1..Len(model_response.traces) :
        /\ model_response.traces[j].trace_type = type
        /\ model_response.traces[j].text = text

\* C1 as stated: the call returns while processing the first event whose chunk
\* carries bytes, with that chunk's decoded text as Result.text.
C1_ReturnsAtFirstChunkWithBytes ==
    \A i \in 1..Len(delivered) :
        HasChunkBytes(delivered[i]) =>
            /\ i = Len(delivered)
            /\ HasKey(ret, "text")
            /\ ret.text = Utf8Decode(delivered[i].chunk.bytes).cps

\* C1 (amended): the call returns while processing the first event whose chunk
\* carries bytes and whose handler raises no exception (a chunk event whose bytes are
\* not UTF-8, or whose trace part fails, is skipped like any malformed event); the
\* returned text is exactly that chunk's decoded text, the returned Result is the
\* Result accumulated up to and including that event, and no Result is returned any
\* other way.  The stream [rationale, action-group output, chunk("done")] returns
\* text "done" and the traces (rationale, observation).
C1_ReturnsAtFirstHandledChunk ==
    /\ \A i \in 1..Len(delivered) :
           (HasChunkBytes(delivered[i]) /\ ~Skipped(i)) =>
               /\ i = Len(delivered)
               /\ Past(pc)
               /\ HasKey(ret, "text")
               /\ ret.text = Utf8Decode(delivered[i].chunk.bytes).cps
               /\ ret = model_response
    /\ HasKey(ret, "text") =>
           /\ Len(delivered) >= 1
           /\ HasChunkBytes(delivered[Len(delivered)])
           /\ ~Skipped(Len(delivered))
    /\ delivered = <<EvRationale, EvAgOutput, EvChunkDone>> =>
           /\ ret.text = TextDone
           /\ ret.traces = <<[trace_type |-> "rationale", text |-> "think"],
                             [trace_type |-> "observation", text |-> "sunny"]>>

\* C1 witness: a first chunk with undecodable bytes was skipped, a later chunk returned.
C1_Witness ==
    /\ pc = "returned"
    /\ Len(delivered) = 3
    /\ HasChunkBytes(delivered[1]) /\ Skipped(1)
    /\ HasRationaleText(delivered[2])
    /\ HasKey(ret, "text") /\ ret.text = TextCafe /\ Len(ret.traces) = 1

RationaleTexts ==
    LET with == SelectSeq(delivered, HasRationaleText)
    IN  [i \in 1..Len(with) |-> TraceEventOf(with[i]).rationale.text]
RationaleEntries == SelectSeq(model_response.traces, IsRationaleEntry)

\* C2 as stated: every event with a rationale field yields exactly one rationale entry.
C2_OneEntryPerRationaleField ==
    Len(RationaleEntries) = Len(SelectSeq(delivered, HasRationale))

\* C2 (amended): every event whose rationale field carries a text yields exactly one
\* TraceEntry of kind rationale with that text verbatim, in delivery order; an event
\* whose rationale field has no text yields no rationale entry (its handler raises).
C2_OneEntryPerRationaleText ==
    /\ Len(RationaleEntries) = Len(RationaleTexts)
    /\ \A i \in 1..Len(RationaleEntries) : RationaleEntries[i].text = RationaleTexts[i]
    /\ \A i \in 1..Len(delivered) :
           (HasRationale(delivered[i]) /\ ~HasRationaleText(delivered[i])) => Skipped(i)

\* C2 witness: a rationale with other sub-fields beside it and a rationale without text.
C2_Witness ==
    /\ Len(delivered) = 2
    /\ delivered[1] = EvRationaleNoText
    /\ delivered[2] = EvMulti
    /\ Len(RationaleEntries) = 1

HasExecutionError(event) ==
    /\ IsOrch(event)
    /\ HasKey(TraceEventOf(event), "observation")
    /\ HasKey(TraceEventOf(event).observation, "codeInterpreterInvocationOutput")
    /\ HasKey(TraceEventOf(event).observation.codeInterpreterInvocationOutput,
              "executionError")
ExecutionErrorOf(event) ==
    TraceEventOf(event).observation.codeInterpreterInvocationOutput.executionError
InputKeys ==
    { <<"codeInterpreterInvocationInput", "code">>,
      <<"knowledgeBaseLookupInput", "text">>,
      <<"actionGroupInvocationInput", "function">> }
\* no field access made before the observation branch fails
WellFormedBeforeObservation(trace_event) ==
    /\ HasKey(trace_event, "rationale") => HasKey(trace_event.rationale, "text")
    /\ HasKey(trace_event, "invocationInput") =>
           \A ks \in InputKeys :
               HasKey(trace_event.invocationInput, ks[1]) =>
                   HasKey(trace_event.invocationInput[ks[1]], ks[2])

\* C3 as stated: every event containing an executionError yields an observation entry
\* with the error text, and no exception leaves the function because of an event.
C3_ExecutionErrorAlwaysObserved ==
    /\ \A i \in 1..Len(delivered) :
           HasExecutionError(delivered[i]) =>
               HasEntry("observation", ExecutionErrorOf(delivered[i]))
    /\ pc = "raised" => transport = "failed"

\* C3 (amended): an event containing an executionError, in which no field access made
\* before the observation branch fails, yields an observation entry with the error
\* text; when an earlier access of the same event fails the handler is abandoned
\* before the error is reached and the event is logged as failed.  In both cases no
\* exception leaves the function: the only exceptions are transport failures.
C3_ExecutionErrorObserved ==
    /\ \A i \in 1..Len(delivered) :
           HasExecutionError(delivered[i]) =>
               IF WellFormedBeforeObservation(TraceEventOf(delivered[i]))
               THEN HasEntry("observation", ExecutionErrorOf(delivered[i]))
               ELSE Skipped(i)
    /\ pc = "raised" => transport = "failed"

\* C3 witness: an execution error beside an execution output was recorded.
C3_Witness ==
    /\ pc = "loop"
    /\ Len(delivered) = 2
    /\ delivered[1] = EvMulti
    /\ delivered[2] = EvExecError
    /\ HasEntry("observation", "warn") /\ HasEntry("observation", "boom")
    /\ errlog = <<>>

Count(seq, x) == Cardinality({i \in 1..Len(seq) : seq[i] = x})
ImagePaths == {IMAGE_FOLDER \o "/" \o name : name \in {"chart.png", "plot.png"}}

\* C4: images never holds a path twice; an image path saved any number of times
\* (two image/png items named "chart.png") is recorded exactly once.
C4_ImagesDeduplicated ==
    /\ \A i, j \in 1..Len(model_response.images) :
           model_response.images[i] = model_response.images[j] => i = j
    /\ \A k \in 1..Len(writes) :
           writes[k] \in ImagePaths => Count(model_response.images, writes[k]) = 1

\* C4 witness: "chart.png" was saved twice, by two file events.
C4_Witness ==
    /\ Len(delivered) = 2
    /\ delivered[1] = EvPng /\ delivered[2] = EvPngPair
    /\ Count(writes, "images/chart.png") = 2
    /\ model_response.images = <<"images/chart.png", "images/plot.png">>

\* well-formed trace events with one sub-field: each yields one TraceEntry
SingleTraceEvents ==
    { EvRationale, EvCodeInput, EvKbInput, EvAgInput, EvExecOutput, EvExecError,
      EvKbOutput, EvAgOutput, EvFinal }

\* C5 as stated: a stream of a valid trace event, a malformed event and a valid trace
\* event yields exactly 2 TraceEntries.
C5_MalformedEventAddsNothing ==
    ( /\ Len(delivered) = 3
      /\ delivered[1] \in SingleTraceEvents
      /\ delivered[3] \in SingleTraceEvents
      /\ errlog = <<1>> )
    => /\ Len(model_response.traces) = 2
       /\ pc = "raised" => transport = "failed"

\* C8 as stated: every return of invoke_bedrock_agent is a Result mapping with the
\* four keys, and the chat turn that subscripts it never fails.
C8_AlwaysReturnsResult ==
    /\ Past(pc) => {"text", "images", "files", "traces"} \subseteq DOMAIN ret
    /\ pc # "turn_failed"

\* number of matching sub-fields of an orchestration trace event
MatchCount(trace_event) ==
    (IF HasKey(trace_event, "rationale") THEN 1 ELSE 0)
    + (IF HasKey(trace_event, "invocationInput")
       THEN Cardinality({ks \in InputKeys : HasKey(trace_event.invocationInput, ks[1])})
       ELSE 0)
    + (IF HasKey(trace_event, "observation")
       THEN Cardinality(DOMAIN trace_event.observation
                          \cap {"knowledgeBaseLookupOutput",
                                "actionGroupInvocationOutput", "finalResponse"})
            + (IF HasKey(trace_event.observation, "codeInterpreterInvocationOutput")
               THEN Cardinality(
                        DOMAIN trace_event.observation.codeInterpreterInvocationOutput
                          \cap {"executionOutput", "executionError"})
               ELSE 0)
       ELSE 0)
MaxEntriesPerEvent == 1 + Cardinality(InputKeys) + 5

\* C9 as stated: one event contributes at most one TraceEntry.
C9_AtMostOneEntryPerEvent ==
    [][Len(model_response'.traces) <= Len(model_response.traces) + 1]_vars

\* C9 (amended): every matching sub-field is processed, in source order: an event
\* whose handler does not raise contributes one TraceEntry per matching sub-field
\* of its orchestration trace (rationale; each of the three invocation inputs;
\* executionOutput, executionError, knowledge-base output, action-group output,
\* finalResponse), at most 9; an event whose handler raises contributes at most
\* that many; an event without an orchestration trace contributes none.
C9_OneEntryPerMatchingSubField ==
    [][delivered' # delivered =>
          LET event == delivered'[Len(delivered')]
              added == Len(model_response'.traces) - Len(model_response.traces)
              raised == Len(errlog') > Len(errlog)
          IN  /\ added >= 0 /\ added <= MaxEntriesPerEvent
              /\ IsOrch(event) /\ ~raised => added = MatchCount(TraceEventOf(event))
              /\ IsOrch(event) /\ raised => added <= MatchCount(TraceEventOf(event))
              /\ ~IsOrch(event) => added = 0
              /\ SubSeq(model_response'.traces, 1, Len(model_response.traces))
                     = model_response.traces]_vars

\* C9 witness: one event with six matching sub-fields contributed six entries.
C9_Witness ==
    /\ Len(delivered) = 1
    /\ delivered[1] = EvMulti
    /\ Len(model_response.traces) = 6
    /\ model_response.traces[3] =
           [trace_type |-> "actionGroupInvocation", text |-> "get_time"]

\* C10: a transport failure (invoke_agent raising, or the stream raising while the
\* next record is fetched) leaves the function as an exception: the handler does not
\* log it, nothing is returned, and the remote agent was invoked exactly once.
C10_TransportFailurePropagates ==
    /\ transport = "failed" => (pc = "raised" /\ ret = NotReturned)
    /\ pc \in {"loop", "returned", "raised", "turn_done", "turn_failed"} =>
           invocations = 1
    /\ invocations <= 1

\* C10 witness: the stream failed after a malformed event had been skipped.
C10_Witness ==
    /\ pc = "raised"
    /\ transport = "failed"
    /\ Len(delivered) = 2
    /\ errlog = <<0>>
    /\ Len(model_response.traces) = 1

(***************************************************************************)
(* Guardrail events.                                                       *)
(***************************************************************************)
IsGuardrail(event) ==
    /\ HasKey(event, "trace")
    /\ HasKey(event.trace, "trace")
    /\ ~HasKey(event.trace.trace, "orchestrationTrace")
    /\ HasKey(event.trace.trace, "guardrailTrace")
    /\ ~HasKey(event, "chunk")
    /\ ~HasKey(event, "files")

\* the warnings due for the BLOCKED items of a filter or topic list, in list order
RECURSIVE BlockedItems(_, _, _)
BlockedItems(items, kind, key) ==
    IF items = <<>> THEN <<>>
    ELSE LET item == Head(items)
             rest == BlockedItems(Tail(items), kind, key)
         IN  IF HasKey(item, "action") /\ item.action = "BLOCKED" /\ HasKey(item, key)
             THEN <<[kind |-> kind, what |-> item[key]]>> \o rest
             ELSE rest

RECURSIVE BlockedInAssessments(_)
BlockedInAssessments(assessments) ==
    IF assessments = <<>> THEN <<>>
    ELSE LET a == Head(assessments)
         IN  (IF HasKey(a, "contentPolicy") /\ HasKey(a.contentPolicy, "filters")
              THEN BlockedItems(a.contentPolicy.filters, "content", "type")
              ELSE <<>>)
             \o (IF HasKey(a, "topicPolicy") /\ HasKey(a.topicPolicy, "topics")
                 THEN BlockedItems(a.topicPolicy.topics, "topic", "name")
                 ELSE <<>>)
             \o BlockedInAssessments(Tail(assessments))

\* one warning per BLOCKED content filter and topic of the event's input assessments
BlockedWarnings(event) ==
    LET guardrail_trace == event.trace.trace.guardrailTrace
    IN  IF HasKey(guardrail_trace, "inputAssessments")
        THEN BlockedInAssessments(guardrail_trace.inputAssessments)
        ELSE <<>>


\* C11 as stated: a guardrail trace event leaves the Result as it was and shows
\* exactly one warning per BLOCKED content filter and per BLOCKED topic of its
\* input assessments.
C11_GuardrailWarnsEveryBlocked ==
    [][delivered' # delivered =>
          LET event == delivered'[Len(delivered')]
          IN  IsGuardrail(event) =>
                  /\ model_response' = model_response
                  /\ pc' = "loop"
                  /\ warnings' = warnings \o BlockedWarnings(event)]_vars

\* C11 (amended): a guardrail trace event leaves the Result as it was and returns
\* nothing; when its handler does not raise it shows exactly one warning per BLOCKED
\* content filter and per BLOCKED topic, in order; when an access fails part-way
\* (a filter or topic without an action) the warnings shown are those of the
\* BLOCKED items met before the failure, and the later ones are not shown.
C11_GuardrailWarnsBlockedUntilFailure ==
    [][delivered' # delivered =>
          LET event == delivered'[Len(delivered')]
              raised == Len(errlog') > Len(errlog)
              issued == SubSeq(warnings', Len(warnings) + 1, Len(warnings'))
          IN  /\ IsGuardrail(event) =>
                  /\ model_response' = model_response
                  /\ pc' = "loop" /\ ret' = ret
                  /\ writes' = writes
                  /\ IsPrefix(warnings, warnings')
                  /\ IsPrefix(issued, BlockedWarnings(event))
                  /\ ~raised => issued = BlockedWarnings(event)
              /\ ~IsGuardrail(event) => warnings' = warnings]_vars

\* C11 witness: a guardrail event with two BLOCKED and two other items was handled
\* after a rationale: two warnings, the Result still holds the one rationale entry.
C11_Witness ==
    /\ Len(delivered) = 2
    /\ delivered[1] = EvRationale /\ delivered[2] = EvGuardrail
    /\ warnings = <<[kind |-> "content", what |-> "HATE"],
                    [kind |-> "topic", what |-> "finance"]>>
    /\ Len(model_response.traces) = 1
    /\ errlog = <<>>

(***************************************************************************)
(* Order of Result.traces.                                                 *)
(***************************************************************************)
\* the block of the handler that appends an entry of this kind: 1 rationale,
\* 2 invocation input, 3 observation
BlockOf(trace_type) ==
    IF trace_type = "rationale" THEN 1
    ELSE IF trace_type \in {"codeInterpreter", "knowledgeBaseLookup",
                            "actionGroupInvocation"} THEN 2
    ELSE 3

\* C12: Result.traces is append-only and ordered.  Every step leaves the entries
\* already in the list in place and unchanged (only the start of a call empties
\* it), so the entries of an earlier event precede those of a later event; and the
\* entries one event adds come in the order rationale, invocation input,
\* observation.
C12_TracesAppendOnlyOrdered ==
    [][LET before == model_response.traces
           after == model_response'.traces
       IN  \/ pc = "start" /\ after = <<>>
           \/ /\ IsPrefix(before, after)
              /\ Len(after) > Len(before) => delivered' # delivered
              /\ \A i, j \in (Len(before) + 1)..Len(after) :
                     i < j => BlockOf(after[i].trace_type) <= BlockOf(after[j].trace_type)
              /\ Past(pc') /\ ret' # None => IsPrefix(after, ret'.traces)]_vars

\* C12 witness: an event with a rationale, two invocation inputs and three
\* observations, then a rationale event: seven entries, those of the first event
\* first and in block order.
C12_Witness ==
    /\ Len(delivered) = 2
    /\ delivered[1] = EvMulti /\ delivered[2] = EvRationale
    /\ Len(model_response.traces) = 7
    /\ model_response.traces[1].trace_type = "rationale"
    /\ model_response.traces[2].trace_type = "codeInterpreter"
    /\ model_response.traces[6].trace_type = "finalResponse"
    /\ model_response.traces[7].trace_type = "rationale"

(***************************************************************************)
(* The classification table.                                               *)
(***************************************************************************)
\* the entries one event added to Result.traces that come from the given block
AddedOfBlock(before, after, block) ==
    SelectSeq(SubSeq(after, Len(before) + 1, Len(after)),
              LAMBDA entry : BlockOf(entry.trace_type) = block)

\* The entries a mapping d yields under table rows [key, sub, kind], read top to
\* bottom: a row whose key is absent yields nothing; a row whose key is present
\* yields the entry [kind, d[key][sub]]; a present key without its sub-key ends
\* the handling of the event.
RECURSIVE TableEntries(_, _)
TableEntries(d, rows) ==
    IF rows = <<>> THEN <<>>
    ELSE LET row == Head(rows)
         IN  IF ~HasKey(d, row.key) THEN TableEntries(d, Tail(rows))
             ELSE IF ~HasKey(d[row.key], row.sub) THEN <<>>
             ELSE <<[trace_type |-> row.kind, text |-> d[row.key][row.sub]]>>
                      \o TableEntries(d, Tail(rows))

InvocationInputTable ==
    << [key |-> "codeInterpreterInvocationInput", sub |-> "code",
        kind |-> "codeInterpreter"],
       [key |-> "knowledgeBaseLookupInput", sub |-> "text",
        kind |-> "knowledgeBaseLookup"],
       [key |-> "actionGroupInvocationInput", sub |-> "function",
        kind |-> "actionGroupInvocation"] >>

RationaleHandled(trace_event) ==
    HasKey(trace_event, "rationale") => HasKey(trace_event.rationale, "text")

\* C15 as stated: every code-interpreter, knowledge-base lookup and action-group
\* invocation input of an event yields the TraceEntry of its table row (kind and
\* payload), and the event yields no other invocation-input entry.
C15_EveryInputClassified ==
    [][delivered' # delivered =>
          LET event == delivered'[Len(delivered')]
              inputs == AddedOfBlock(model_response.traces, model_response'.traces, 2)
              Yielded(kind, payload) ==
                  \E k \in 1..Len(inputs) :
                      inputs[k].trace_type = kind /\ inputs[k].text = payload
          IN  IF IsOrch(event) /\ HasKey(TraceEventOf(event), "invocationInput")
              THEN LET ii == TraceEventOf(event).invocationInput
                   IN  /\ \A r \in 1..Len(InvocationInputTable) :
                              LET row == InvocationInputTable[r]
                              IN  HasKey(ii, row.key) /\ HasKey(ii[row.key], row.sub)
                                      => Yielded(row.kind, ii[row.key][row.sub])
                       /\ Len(inputs) <= Cardinality(DOMAIN ii)
              ELSE inputs = <<>>]_vars

\* C15 (amended): invocation-input classification follows the table whenever the
\* input is reached.  In an event whose rationale, if any, was handled, the
\* rationale, if any, was handled, the invocation-input entries added are those of
\* the table, in its order: kind codeInterpreter with the code string, kind
\* knowledgeBaseLookup with the lookup query text, kind actionGroupInvocation with
\* the function name, and nothing else; an event without an invocation input adds
\* no entry of these kinds.
C15_InvocationInputTable ==
    [][delivered' # delivered =>
          LET event == delivered'[Len(delivered')]
              inputs == AddedOfBlock(model_response.traces, model_response'.traces, 2)
          IN  IF IsOrch(event) /\ HasKey(TraceEventOf(event), "invocationInput")
              THEN RationaleHandled(TraceEventOf(event)) =>
                       inputs = TableEntries(TraceEventOf(event).invocationInput,
                                             InvocationInputTable)
              ELSE inputs = <<>>]_vars

\* C15 witness: one input of each of the three kinds was classified.
C15_Witness ==
    /\ delivered = <<EvCodeInput, EvKbInput, EvAgInput>>
    /\ model_response.traces =
           << [trace_type |-> "codeInterpreter", text |-> "print(1)"],
              [trace_type |-> "knowledgeBaseLookup", text |-> "query"],
              [trace_type |-> "actionGroupInvocation", text |-> "get_weather"] >>

ObservationTable ==
    << [key |-> "actionGroupInvocationOutput", sub |-> "text", kind |-> "observation"],
       [key |-> "finalResponse", sub |-> "text", kind |-> "finalResponse"] >>

\* the entries of a code-interpreter output: its stdout, then its error
CodeInterpreterOutputEntries(obs) ==
    IF ~HasKey(obs, "codeInterpreterInvocationOutput") THEN <<>>
    ELSE LET out == obs.codeInterpreterInvocationOutput
         IN  (IF HasKey(out, "executionOutput")
              THEN <<[trace_type |-> "observation", text |-> out.executionOutput]>>
              ELSE <<>>)
             \o (IF HasKey(out, "executionError")
                 THEN <<[trace_type |-> "observation", text |-> out.executionError]>>
                 ELSE <<>>)

\* the entries of an observation, in the order of the handler; a knowledge-base
\* output is recorded with its list of references before the references are shown
ObservationEntries(obs) ==
    CodeInterpreterOutputEntries(obs)
    \o (IF ~HasKey(obs, "knowledgeBaseLookupOutput")
        THEN TableEntries(obs, ObservationTable)
        ELSE IF ~HasKey(obs.knowledgeBaseLookupOutput, "retrievedReferences")
        THEN <<>>
        ELSE LET references == obs.knowledgeBaseLookupOutput.retrievedReferences
             IN  <<[trace_type |-> "knowledgeBaseLookupOutput", text |-> references]>>
                 \o (IF \A i \in 1..Len(references) : ReferenceShown(references[i])
                     THEN TableEntries(obs, ObservationTable)
                     ELSE <<>>))

\* C16 as stated: the execution stdout of a code-interpreter output, the list of
\* retrieved references of a knowledge-base lookup output, the returned text of an
\* action-group output and the final text of a final response each yield the
\* TraceEntry of their table row.
C16_EveryObservationClassified ==
    [][delivered' # delivered =>
          LET event == delivered'[Len(delivered')]
              observations ==
                  AddedOfBlock(model_response.traces, model_response'.traces, 3)
              Yielded(kind, payload) ==
                  \E k \in 1..Len(observations) :
                      observations[k].trace_type = kind /\ observations[k].text = payload
          IN  IsOrch(event) /\ HasKey(TraceEventOf(event), "observation") =>
                  LET obs == TraceEventOf(event).observation
                  IN  /\ ( /\ HasKey(obs, "codeInterpreterInvocationOutput")
                           /\ HasKey(obs.codeInterpreterInvocationOutput,
                                     "executionOutput") )
                         => Yielded("observation",
                                    obs.codeInterpreterInvocationOutput.executionOutput)
                      /\ ( /\ HasKey(obs, "knowledgeBaseLookupOutput")
                           /\ HasKey(obs.knowledgeBaseLookupOutput,
                                     "retrievedReferences") )
                         => Yielded("knowledgeBaseLookupOutput",
                                    obs.knowledgeBaseLookupOutput.retrievedReferences)
                      /\ \A r \in 1..Len(ObservationTable) :
                             LET row == ObservationTable[r]
                             IN  HasKey(obs, row.key) /\ HasKey(obs[row.key], row.sub)
                                     => Yielded(row.kind, obs[row.key][row.sub])]_vars

\* C16 (amended): observation classification follows the table whenever the
\* observation is reached.  In an event whose rationale
\* and invocation inputs, if any, were handled, the observation entries added are:
\* kind observation with the execution stdout (and with the execution error) of a
\* code-interpreter output, kind knowledgeBaseLookupOutput with the list of
\* retrieved references, kind observation with the returned text of an action-group
\* output, kind finalResponse with the final text, in this order and nothing else;
\* an event without an observation adds no entry of these kinds.
C16_ObservationTable ==
    [][delivered' # delivered =>
          LET event == delivered'[Len(delivered')]
              observations ==
                  AddedOfBlock(model_response.traces, model_response'.traces, 3)
          IN  IF IsOrch(event) /\ HasKey(TraceEventOf(event), "observation")
              THEN WellFormedBeforeObservation(TraceEventOf(event)) =>
                       /\ Len(observations)
                              = Len(ObservationEntries(TraceEventOf(event).observation))
                       /\ observations
                              = ObservationEntries(TraceEventOf(event).observation)
              ELSE observations = <<>>]_vars

\* C16 witness: a knowledge-base output, an action-group output and a final
\* response were classified.
C16_Witness ==
    /\ delivered = <<EvKbOutput, EvAgOutput, EvFinal>>
    /\ Len(model_response.traces) = 3
    /\ model_response.traces[1].trace_type = "knowledgeBaseLookupOutput"
    /\ model_response.traces[1].text = <<GoodReference>>
    /\ model_response.traces[2] = [trace_type |-> "observation", text |-> "sunny"]
    /\ model_response.traces[3] = [trace_type |-> "finalResponse", text |-> "bye"]

(***************************************************************************)
(* File events.                                                            *)
(***************************************************************************)
HasFileItems(event) == HasKey(event, "files") /\ HasKey(event.files, "files")
IsImageItem(file) == file.type = "image/png"

\* the names of the items that are not image/png, in order, repeats included
RECURSIVE NonImageNames(_)
NonImageNames(items) ==
    IF items = <<>> THEN <<>>
    ELSE (IF IsImageItem(Head(items)) THEN <<>> ELSE <<Head(items).name>>)
         \o NonImageNames(Tail(items))

\* C17: every file item of a processed file event (one whose handler ran to its
\* end) is recorded in exactly one of the two lists.  An image/png item is in images
\* under IMAGE_FOLDER/name, once, and adds nothing to files; every other item is
\* appended to files under its name verbatim, once per delivery (no
\* de-duplication), and adds nothing to images.  An event whose handler raised
\* records nothing but items of its own, at the end of the lists.
C17_FileItemsRecordedOnce ==
    [][delivered' # delivered =>
          LET event == delivered'[Len(delivered')]
              raised == Len(errlog') > Len(errlog)
              items == IF HasFileItems(event) THEN event.files.files ELSE <<>>
              images == model_response.images
              files == model_response.files
              new_images == SubSeq(model_response'.images, Len(images) + 1,
                                   Len(model_response'.images))
              new_files == SubSeq(model_response'.files, Len(files) + 1,
                                  Len(model_response'.files))
          IN  /\ IsPrefix(images, model_response'.images)
              /\ IsPrefix(files, model_response'.files)
              /\ \A k \in 1..Len(new_images) : \E f \in 1..Len(items) :
                     /\ HasKey(items[f], "type") /\ IsImageItem(items[f])
                     /\ new_images[k] = IMAGE_FOLDER \o "/" \o items[f].name
              /\ \A k \in 1..Len(new_files) : \E f \in 1..Len(items) :
                     /\ HasKey(items[f], "type") /\ ~IsImageItem(items[f])
                     /\ new_files[k] = items[f].name
              /\ ~raised /\ pc' = "loop" =>
                     /\ new_files = NonImageNames(items)
                     /\ \A f \in 1..Len(items) :
                            IsImageItem(items[f]) =>
                                Count(model_response'.images,
                                      IMAGE_FOLDER \o "/" \o items[f].name) = 1]_vars

\* C17 witness: the csv file was delivered twice and is twice in files; the two
\* images of the pair event are in images and not in files.
C17_Witness ==
    /\ delivered = <<EvCsv, EvPngPair, EvCsv>>
    /\ model_response.files = <<"data.csv", "data.csv">>
    /\ model_response.images = <<"images/plot.png", "images/chart.png">>
    /\ errlog = <<>>

(***************************************************************************)
(* Termination of the event loop.                                          *)
(***************************************************************************)
\* C18 as stated: no event delivered after the first text chunk is processed: a
\* chunk that carries bytes is the last event the loop takes from the stream.
C18_NothingAfterFirstChunk ==
    \A i \in 1..(Len(delivered) - 1) : ~HasChunkBytes(delivered[i])

\* C18 (amended): the loop terminates for every finite stream.  Each step of the
\* loop either takes exactly one more event from the stream, in delivery order, and
\* handles it once, or leaves the loop without taking an event (the stream is
\* exhausted or fails).  The loop is left by a return exactly at the first event
\* whose chunk carries bytes and whose handler raises no exception; a text chunk
\* that is skipped (undecodable bytes, or a failure earlier in its event) does not
\* stop the loop, and the events after it are processed.  Once the call is over
\* nothing is taken from the stream, no entry or path is added and no file written.
C18_LoopStopsAtHandledChunk ==
    [][/\ Len(delivered') <= MaxEvents
       /\ pc = "loop" =>
              \/ /\ delivered' = delivered
                 /\ pc' \in {"returned", "raised"}
                 /\ model_response' = model_response /\ writes' = writes
              \/ /\ delivered' = Append(delivered, delivered'[Len(delivered')])
                 /\ LET event == delivered'[Len(delivered')]
                        raised == Len(errlog') > Len(errlog)
                    IN  /\ pc' \in {"loop", "returned"}
                        /\ pc' = "returned" <=> (HasChunkBytes(event) /\ ~raised)
                        /\ pc' = "returned" => ret' = model_response'
       /\ pc # "loop" =>
              /\ delivered' = delivered
              /\ writes' = writes
              /\ ret' = ret
              /\ pc # "start" => model_response' = model_response]_vars

\* C18 witness: a text chunk with undecodable bytes was skipped, the file event
\* after it was processed, and the call returned at the next text chunk.
C18_Witness ==
    /\ delivered = <<EvChunkBadUtf8, EvCsv, EvChunkDone>>
    /\ pc = "returned"
    /\ errlog = <<0>>
    /\ writes = <<"data.csv">>
    /\ ret.files = <<"data.csv">>
    /\ ret.text = TextDone

(***************************************************************************)
(* Malformed events.                                                       *)
(***************************************************************************)
\* C19 as stated: an event whose handler raises is dropped as a whole: the Result
\* after it equals the Result before it, and the loop goes on with the next event.
C19_MalformedEventDroppedWhole ==
    [][Len(errlog') > Len(errlog) =>
           /\ model_response' = model_response
           /\ pc' = "loop"]_vars

(***************************************************************************)
(* Events of an unmatched shape.                                           *)
(***************************************************************************)
\* the trace wrapper, if any, holds neither an orchestration nor a guardrail trace
NoMatchingTrace(event) ==
    HasKey(event, "trace") =>
        \/ ~HasKey(event.trace, "trace")
        \/ /\ ~HasKey(event.trace.trace, "orchestrationTrace")
           /\ ~HasKey(event.trace.trace, "guardrailTrace")
\* no branch of the handler matches the event
Unmatched(event) ==
    /\ NoMatchingTrace(event)
    /\ ~HasChunkBytes(event)
    /\ ~HasKey(event, "files")

\* C21: an event of an unmatched shape (none of the keys trace, chunk, files; a
\* trace wrapper with neither an orchestration nor a guardrail trace, or without the
\* inner trace key; a chunk without bytes) leaves the Result unchanged, writes
\* nothing, warns of nothing, raises nothing to the caller and does not end the
\* loop.  Only the trace wrapper without the inner trace key goes through the
\* except clause on its way.
C21_UnmatchedEventIgnored ==
    [][delivered' # delivered =>
          LET event == delivered'[Len(delivered')]
              raised == Len(errlog') > Len(errlog)
          IN  Unmatched(event) =>
                  /\ model_response' = model_response
                  /\ writes' = writes /\ warnings' = warnings
                  /\ pc' = "loop" /\ ret' = ret
                  /\ transport' = transport
                  /\ raised <=> (HasKey(event, "trace") /\ ~HasKey(event.trace, "trace"))]_vars

\* C21 witness: after a rationale, a chunk without bytes and a trace wrapper without
\* the inner trace key were delivered: the loop is still running with the one
\* rationale entry.
C21_Witness ==
    /\ delivered = <<EvRationale, EvChunkNoBytes, EvTraceNoInner>>
    /\ pc = "loop"
    /\ errlog = <<2>>
    /\ model_response.traces = <<[trace_type |-> "rationale", text |-> "think"]>>
    /\ model_response.text = <<>>

(***************************************************************************)
(* Disk writes.                                                            *)
(***************************************************************************)
\* the path a file item is written to
ItemPath(file) ==
    IF IsImageItem(file) THEN IMAGE_FOLDER \o "/" \o file.name ELSE file.name

\* C22: each file item of a processed file event (one whose handler ran to its end)
\* causes exactly one write, in item order, to IMAGE_FOLDER/name for image/png and
\* to the bare name otherwise.  De-duplication applies to the images list only: an
\* image whose path is already recorded is written again and images stays as it
\* was.  An event whose handler raised wrote the items before the failure, and no
\* other event writes anything.
C22_OneWritePerFileItem ==
    [][delivered' # delivered =>
          LET event == delivered'[Len(delivered')]
              raised == Len(errlog') > Len(errlog)
              items == IF HasFileItems(event) THEN event.files.files ELSE <<>>
              written == SubSeq(writes', Len(writes) + 1, Len(writes'))
          IN  /\ IsPrefix(writes, writes')
              /\ Len(written) <= Len(items)
              /\ \A k \in 1..Len(written) :
                     HasKey(items[k], "type") /\ written[k] = ItemPath(items[k])
              /\ ~raised /\ pc' = "loop" => Len(written) = Len(items)
              /\ \A k \in 1..Len(written) :
                     ( /\ IsImageItem(items[k])
                       /\ \E j \in 1..Len(model_response.images) :
                              model_response.images[j] = written[k] )
                     => Count(model_response'.images, written[k]) = 1]_vars

\* C22 witness: chart.png was delivered twice and written twice, and is once in
\* images; the csv file was written under its bare name.
C22_Witness ==
    /\ delivered = <<EvPngPair, EvPng, EvCsv>>
    /\ writes = <<"images/plot.png", "images/chart.png", "images/chart.png", "data.csv">>
    /\ model_response.images = <<"images/plot.png", "images/chart.png">>
    /\ model_response.files = <<"data.csv">>

(***************************************************************************)
(* Properties of the browser session, checked under SpecChat.              *)
(***************************************************************************)
\* C13 as stated: the session history strictly alternates user and assistant
\* messages, and once the script run of a chat turn is over every accepted user
\* input has been followed by exactly one assistant message.
C13_HistoryAlternates ==
    /\ \A i \in 1..Len(messages) :
           messages[i].role = (IF i % 2 = 1 THEN "user" ELSE "assistant")
    /\ ScriptOver => Len(messages) % 2 = 0

\* the file items of the events of a stream
RECURSIVE FileItems(_)
FileItems(stream) ==
    IF stream = <<>> THEN <<>>
    ELSE (IF HasKey(Head(stream), "files") /\ HasKey(Head(stream).files, "files")
          THEN Head(stream).files.files ELSE <<>>)
         \o FileItems(Tail(stream))

\* the largest number of TraceEntries the events of a stream can yield
RECURSIVE MatchTotal(_)
MatchTotal(stream) ==
    IF stream = <<>> THEN 0
    ELSE (IF IsOrch(Head(stream)) THEN MatchCount(TraceEventOf(Head(stream))) ELSE 0)
         + MatchTotal(Tail(stream))

Returned(call) == call.result # NotReturned
IsResult(value) == {"text", "images", "files", "traces"} \subseteq DOMAIN value

\* C14: the Result of a call depends only on the call's event stream.  Two calls of
\* one process whose streams delivered the same events returned equal values,
\* whatever calls ran before them; and every image path and file path of a returned
\* Result stems from a file item of the call's own stream, and the Result has no
\* more TraceEntries than the call's own events yield.
C14_ResultDependsOnlyOnStream ==
    /\ \A i, j \in 1..Len(call_log) :
           ( /\ Returned(call_log[i]) /\ Returned(call_log[j])
             /\ call_log[i].stream = call_log[j].stream )
           => call_log[i].result = call_log[j].result
    /\ \A i \in 1..Len(call_log) :
           IsResult(call_log[i].result) =>
               LET result == call_log[i].result
                   items == FileItems(call_log[i].stream)
               IN  /\ \A k \in 1..Len(result.images) : \E f \in 1..Len(items) :
                          result.images[k] = IMAGE_FOLDER \o "/" \o items[f].name
                   /\ \A k \in 1..Len(result.files) : \E f \in 1..Len(items) :
                          result.files[k] = items[f].name
                   /\ Len(result.traces) <= MatchTotal(call_log[i].stream)

\* C14 witness: the second call of a session was fed the same two events as the
\* first, which had filled its Result with a trace and a text, and returned the
\* same one-entry Result.
C14_Witness ==
    /\ Len(call_log) = 2
    /\ pc = "turn_done"
    /\ call_log[1].stream = <<EvRationale, EvChunkDone>>
    /\ call_log[2].stream = <<EvRationale, EvChunkDone>>
    /\ IsResult(call_log[2].result)
    /\ Len(call_log[2].result.traces) = 1
    /\ call_log[2].result.text = TextDone

\* the ids generate_random_15digit can return in the model
SessionIds == { GenerateRandom15Digit(draws) : draws \in RandomDraws }

\* C23: the session id is set when the session state is first created and is left
\* unchanged by every chat turn, which invokes the agent with it; the history only
\* grows during turns.  The one step that empties the history of a session or
\* replaces its id is Clear Conversation, between script runs: it leaves an empty
\* history and a newly generated id of 15 digits, and touches nothing else.
C23_SessionIdStableUntilClear ==
    [][/\ SessionIds = {"777777777777777", "123456789012345"}
       /\ initialized' => session_id' \in SessionIds
       /\ initialized' # initialized => (~initialized /\ messages' = <<>>)
       /\ Len(call_log') > Len(call_log) =>
              /\ session_id' = session_id
              /\ call_log'[Len(call_log')].sessionId = session_id
              /\ IsPrefix(call_log, call_log')
       /\ (initialized /\ (session_id' # session_id \/ ~IsPrefix(messages, messages'))) =>
              /\ ScriptOver
              /\ messages' = <<>>
              /\ call_log' = call_log
              /\ agentVars' = agentVars]_vars

\* C23 witness: two turns of one session separated by a Clear Conversation that
\* drew another id: the second call carries the new id and the history holds the
\* second turn only.
C23_Witness ==
    /\ Len(call_log) = 2
    /\ pc = "turn_done"
    /\ call_log[1].sessionId = "777777777777777"
    /\ call_log[2].sessionId = "123456789012345"
    /\ session_id = "123456789012345"
    /\ Len(messages) = 2

\* C24 as stated: when a chat turn has completed, the assistant message at the end
\* of the history carries the text, the traces and the images of the Result the
\* call returned, so the replay shows the answer text displayed during the turn.
C24_AssistantMessageCarriesResult ==
    pc = "turn_done" =>
        LET message == messages[Len(messages)]
        IN  /\ message.role = "assistant"
            /\ message.traces = ret.traces
            /\ message.images = ret.images
            /\ message.content[1].text = ret.text
            /\ Replay(messages)[Len(messages)] = shown[Len(shown)]


(***************************************************************************)
(* Properties of the diagram lambda_handler, checked under SpecLambda.     *)
(***************************************************************************)
GenerationFailed == rret.items[1] = PyNone \/ rret.items[2] = PyNone
AttemptFailed(outcome) ==
    outcome.kind = "raise" \/ AllNotNone(outcome.value) # "True"
BodyOf(response) == response.response.functionResponse.responseBody.TEXT.body

\* C25: the diagram lambda_handler never raises before its return, and what it
\* returns echoes the event's messageVersion, actionGroup and function (the
\* default "" without one) with one of three bodies: "Error generating diagram"
\* exactly when retry_with_backoff returned a None image or file name, which is
\* when all three attempts failed, and then upload_to_s3 was never called;
\* "Error uploading to S3" exactly when generation succeeded and the one upload
\* returned None; otherwise the dict with the uploaded image's URL, as a string.
C25_ThreeBodies ==
    /\ lpc \in {"generate", "upload", "returned"}
    /\ lpc # "returned" => api_response = NotReturned
    /\ lpc = "returned" =>
        /\ api_response.messageVersion = lambda_event.messageVersion
        /\ api_response.response.actionGroup = lambda_event.actionGroup
        /\ api_response.response.function = DictGet(lambda_event, "function", "")
        /\ DOMAIN api_response = {"messageVersion", "response"}
        /\ GenerationFailed <=>
               /\ rpc = "gave_up"
               /\ Len(calls) = DefaultMaxRetries
               /\ \A i \in 1..Len(calls) : AttemptFailed(calls[i])
        /\ BodyOf(api_response) = "Error generating diagram" <=> GenerationFailed
        /\ GenerationFailed => put_objects = <<>>
        /\ ~GenerationFailed => Len(put_objects) = 1
        /\ BodyOf(api_response) = "Error uploading to S3" <=>
               (~GenerationFailed /\ put_objects[1].result = PyNone)
        /\ (~GenerationFailed /\ put_objects[1].result # PyNone) =>
               BodyOf(api_response) = StrOfResults(put_objects[1].result.str)

\* C25 witness: the first attempt failed, the second produced a diagram, and the
\* upload failed: the handler returned the upload error
C25_Witness ==
    /\ lpc = "returned"
    /\ Len(calls) = 2
    /\ ~GenerationFailed
    /\ BodyOf(api_response) = "Error uploading to S3"
    /\ sleeps = <<1>>


(***************************************************************************)
(* Properties of docs_diag_agent, checked under SpecCore.                  *)
(***************************************************************************)
\* index of the last exit_stack.close() of a trace, 0 without one
LastClose(trace) ==
    LET closes == {i \in 1..Len(trace) : trace[i].op = "close"}
    IN  IF closes = {} THEN 0 ELSE CHOOSE i \in closes : \A j \in closes : j <= i

\* the entries of kind op a trace holds after position from
OpsSince(trace, from, op) == {i \in (from + 1)..Len(trace) : trace[i].op = op}

LastReply(rs) == rs[Len(rs)]

\* C26: a non-None agent_instance comes with a non-None exit_stack and mcp_clients;
\* a request that finds an agent and does not fail changes none of the three
\* globals, makes one agent call, on that agent, and nothing else; and since the
\* last cleanup the clients were created once, each client's context was entered
\* once, on the current exit stack, and every agent call went to the current agent.
C26_InitializeAgentIdempotent ==
    [][/\ agent_instance # None => (exit_stack # None /\ mcp_clients # None)
       /\ agent_instance' # None => (exit_stack' # None /\ mcp_clients' # None)
       /\ (agent_instance # None /\ replies' # replies
              /\ LastReply(replies').kind = "return") =>
              /\ agent_instance' = agent_instance
              /\ exit_stack' = exit_stack
              /\ mcp_clients' = mcp_clients
              /\ LastReply(replies').agent = agent_instance.agent
              /\ core_trace' = Append(core_trace,
                     [op |-> "agent()", agent |-> agent_instance.agent, ok |-> TRUE])
       /\ agent_instance' # None =>
              LET from == LastClose(core_trace')
              IN  /\ Cardinality(OpsSince(core_trace', from, "create_mcp_clients")) = 1
                  /\ Cardinality(OpsSince(core_trace', from, "ExitStack")) = 1
                  /\ Cardinality(OpsSince(core_trace', from, "Agent")) = 1
                  /\ \A k \in 1..Len(ClientNames) :
                         Cardinality({i \in OpsSince(core_trace', from, "enter") :
                                         /\ core_trace'[i].client = ClientNames[k]
                                         /\ core_trace'[i].stack = exit_stack'.stack}) = 1
                  /\ Cardinality(OpsSince(core_trace', from, "enter")) = Len(ClientNames)
                  /\ \A i \in OpsSince(core_trace', from, "agent()") :
                         core_trace'[i].agent = agent_instance'.agent]_vars

\* C26 witness: three requests in a row were answered by the agent of the first
C26_Witness ==
    /\ Len(replies) = 3
    /\ \A i \in 1..3 : replies[i].kind = "return" /\ replies[i].agent = 1
    /\ agent_instance = [agent |-> 1]
    /\ Cardinality(OpsSince(core_trace, 0, "agent()")) = 3

\* C27: a request that raises leaves exit_stack, agent_instance and mcp_clients
\* None and every client context entered so far closed with its exit stack, the
\* close being the last call made when the request had or made an exit stack; and
\* a request that finds no agent and succeeds initializes afresh: a new exit
\* stack, new clients, three contexts entered, a new agent, which answers it.
C27_FailureCleansUp ==
    [][replies' # replies =>
        LET n == Len(replies')
        IN  /\ LastReply(replies').kind = "raise" =>
                /\ exit_stack' = None
                /\ agent_instance' = None
                /\ mcp_clients' = None
                /\ \A i \in OpsSince(core_trace', 0, "enter") :
                       \E j \in OpsSince(core_trace', i, "close") :
                           core_trace'[j].stack = core_trace'[i].stack
                /\ (exit_stack # None \/ OpsSince(core_trace', Len(core_trace), "ExitStack") # {}) =>
                       core_trace'[Len(core_trace')].op = "close"
            /\ (agent_instance = None /\ LastReply(replies').kind = "return") =>
                /\ LastReply(replies').agent = n
                /\ agent_instance' = [agent |-> n]
                /\ exit_stack' = [stack |-> n]
                /\ mcp_clients' # None
                /\ Cardinality({i \in OpsSince(core_trace', Len(core_trace), "enter") :
                                   core_trace'[i].stack = n}) = Len(ClientNames)]_vars

\* C27 witness: the agent call of the first request failed after a full start-up,
\* the three contexts were closed, and the second request was answered by a new agent
C27_Witness ==
    /\ Len(replies) = 2
    /\ replies[1].kind = "raise"
    /\ replies[2] = [kind |-> "return", agent |-> 2]
    /\ \E i \in OpsSince(core_trace, 0, "agent()") :
           core_trace[i].agent = 1 /\ ~core_trace[i].ok
    /\ \E j \in OpsSince(core_trace, 0, "close") : core_trace[j].stack = 1
    /\ agent_instance = [agent |-> 2]


(***************************************************************************)
(* Properties of invoke_agent of prod_agent, checked under SpecInvoke.     *)
(***************************************************************************)
\* the remote call returned and its body could be read to the end
BodyRead ==
    /\ remote.kind = "return"
    /\ HasKey(remote.value, "response")
    /\ remote.value.response.read = "ok"
    /\ remote.value.response.iter_lines = "ok"

\* C28 as stated: invoke_agent returns a mapping with a session_id key, the
\* caller's id when one was given and the generated one otherwise; the mapping
\* has a response key whenever the remote call returned and its body was read
\* (event stream, JSON, empty body, body that cannot be decoded) and an error key
\* when the remote call or the reading failed; main writes that session id.
C28_ResponseOnEverySuccessPath ==
    ipc \in {"returned", "saved"} =>
        /\ HasKey(invoke_result, "session_id")
        /\ invoke_result.session_id =
               IF invoke_args.session_id \in {PyNone, PyStr("")}
               THEN invoke_args.uuid4 ELSE invoke_args.session_id.str
        /\ BodyRead => HasKey(invoke_result, "response")
        /\ ~BodyRead => HasKey(invoke_result, "error")
        /\ ipc = "saved" => session_file = [written |-> invoke_result.session_id]


(***************************************************************************)
(* Properties of the tool-use pipeline, checked under SpecPipeline.        *)
(***************************************************************************)
IsToolUse(content_block) == HasKey(content_block, "toolUse")
ToolUseId(content_block) == content_block.toolUse.toolUseId
ToolResultId(content_block) == content_block.toolResult.toolUseId

\* the toolUseId of each toolUse block of a content list, in order
RECURSIVE ToolUseIds(_)
ToolUseIds(content) ==
    IF content = <<>> THEN <<>>
    ELSE IF IsToolUse(Head(content))
    THEN <<ToolUseId(Head(content))>> \o ToolUseIds(Tail(content))
    ELSE ToolUseIds(Tail(content))

\* C29 as stated: when process_llm_response has returned for the first response,
\* its blocks are one toolResult per toolUse block of that response, in the same
\* order and with the same toolUseId, whatever the tool name: a response with tool
\* uses is followed by a user message that answers each of them, and one without
\* is followed by nothing.
C29_EveryToolUseAnswered ==
    ppc \in {"second", "done"} =>
        LET uses == ToolUseIds(message_list[2].content)
        IN  IF uses = <<>> THEN Len(message_list) = 2
            ELSE /\ Len(message_list) >= 3
                 /\ message_list[3].role = "user"
                 /\ Len(message_list[3].content) = Len(uses)
                 /\ \A i \in 1..Len(uses) :
                        ToolResultId(message_list[3].content[i]) = uses[i]

\* C30 as stated: a run makes at most two model requests; the second is made
\* exactly when the first response produced a tool result; a finished run with two
\* requests has the messages user, assistant, user, assistant; and every tool use
\* of the second response was executed, its result going into no request.
C30_TwoRequestsSecondExecuted ==
    /\ Len(converse_requests) <= 2
    /\ ppc \in {"done", "raised"} =>
           (Len(converse_requests) = 2 <=>
                (Len(message_list) >= 3 /\ message_list[3].content # <<>>))
    /\ \A i \in 1..Len(message_list) :
           message_list[i].role = IF i % 2 = 1 THEN "user" ELSE "assistant"
    /\ (ppc = "done" /\ Len(converse_requests) = 2) =>
           /\ Len(message_list) = 4
           /\ \A i \in 1..Len(ToolUseIds(message_list[4].content)) :
                  \E k \in 1..Len(tool_executions) :
                      /\ tool_executions[k].request = 2
                      /\ tool_executions[k].toolUseId =
                             ToolUseIds(message_list[4].content)[i]


(***************************************************************************)
(* Properties of retry_with_backoff, checked under SpecRetry.              *)
(***************************************************************************)
HasNoneComponent(v) ==
    v.ty = "tuple" /\ \E i \in 1..Len(v.items) : v.items[i] = PyNone
\* a None result: a bare None or a tuple with a None component
NoneResult(v) == v = PyNone \/ HasNoneComponent(v)
\* the call fails: it raises or yields a None result
FailedCall(outcome) == outcome.kind = "raise" \/ NoneResult(outcome.value)
\* the call succeeds: it returns a value that is no None result
SucceededCall(outcome) == outcome.kind = "return" /\ ~NoneResult(outcome.value)
BackoffSleeps(k) == [i \in 1..k |-> initial_delay * (2 ^ (i - 1))]

\* C6 as stated: when func raises on its first k calls (k < max_retries) and succeeds
\* on call k+1, that call's value is returned after exactly k+1 calls and the sleeps
\* were initial_delay*2^0, ..., initial_delay*2^(k-1).
C6_SuccessAfterFailuresReturned ==
    \A k \in 0..(Len(calls) - 1) :
        ( /\ k < max_retries
          /\ \A i \in 1..k : calls[i].kind = "raise"
          /\ SucceededCall(calls[k + 1]) )
        => /\ rpc = "returned"
           /\ rret = calls[k + 1].value
           /\ Len(calls) = k + 1
           /\ sleeps = BackoffSleeps(k)

\* C7 as stated: func is called at most max_retries times; a call is followed by
\* another attempt (or by giving up) exactly when it raised or yielded a None result,
\* and the first call that did neither ends the retrying with its value returned.
C7_RetriedExactlyOnFailure ==
    /\ Len(calls) <= max_retries
    /\ \A i \in 1..Len(calls) :
           IF FailedCall(calls[i])
           THEN ~(rpc = "returned" /\ i = Len(calls))
           ELSE /\ i = Len(calls)
                /\ rpc = "returned"
                /\ rret = calls[i].value

\* C20: when every one of the max_retries attempts fails (raises or yields a None
\* result), retry_with_backoff returns the pair (None, None) and does not raise: no
\* return value other than (None, None) comes out of such a run, and the run ends
\* after exactly max_retries calls.  A sleep follows a failed attempt only when
\* another attempt follows: after k failed attempts the sleeps are
\* initial_delay*2^0, ..., up to the (n-1)-th at most, so a run that gives up with
\* max_retries = n has slept initial_delay*2^0, ..., initial_delay*2^(n-2), n-1
\* sleeps in total (none when n is 0 or 1).
C20_AllFailedReturnsNonePair ==
    /\ rpc \in {"idle", "loop", "returned", "gave_up"}
    /\ rpc = "gave_up" =>
           /\ rret = PyTuple(<<PyNone, PyNone>>)
           /\ Len(calls) = max_retries
           /\ sleeps = BackoffSleeps(max_retries - 1)
           /\ max_retries >= 1 => Len(sleeps) = max_retries - 1
    /\ ( /\ rpc # "loop"
         /\ Len(calls) = max_retries
         /\ \A i \in 1..Len(calls) : FailedCall(calls[i]) )
       => rpc = "gave_up"
    /\ rpc = "loop" =>
           sleeps = BackoffSleeps(IF attempt < max_retries THEN attempt
                                  ELSE max_retries - 1)

\* C20 witness: three attempts failed (an exception, a bare None, a pair with a
\* None) and the call gave up after sleeping 1 and 2 seconds.
C20_Witness ==
    /\ rpc = "gave_up"
    /\ max_retries = 3 /\ initial_delay = 1
    /\ calls = <<Raises, Returns(PyNone), Returns(PyTuple(<<PyStr("img"), PyNone>>))>>
    /\ sleeps = <<1, 2>>
    /\ rret = PyTuple(<<PyNone, PyNone>>)

====
